---- MODULE Spec2Model ----
(***************************************************************************)
(* The WebRTC relay of go2_robot_sdk (webrtc_relay/*.py): the process-wide  *)
(* WebRTCRelayAppState and the three HTTP endpoints /go2/connect,           *)
(* /go2/disconnect and /webrtc/offer, each an asyncio coroutine.  One       *)
(* action is the code a coroutine runs between two suspension points        *)
(* (an await that reaches the event loop); the library calls awaited        *)
(* (Go2Connection.connect, RTCPeerConnection.close, the SDP negotiation)    *)
(* return or raise as the environment decides.                              *)
(***************************************************************************)
EXTENDS Naturals, FiniteSets, Sequences, TLC

\* ------------------------------------------------------------------ bounds
\* HTTP requests the relay serves in one run.
MaxStarts == 4
\* HTTP requests that may be in flight at the same time.
MaxReq == 2

None == 0
\* A request constructs at most one Go2Connection or one RTCPeerConnection.
Go2Ids == 1..MaxStarts
PcIds == 1..MaxStarts
ReqIds == 1..MaxReq

VARIABLES
    go2,              \* state.go2: the stored Go2Connection, or None
    relay_pc,         \* state.relay_rtc_peer_connection, or None
    relay_dc,         \* state.relay_rtc_data_channel (named by its peer connection), or None
    go2_video_track,  \* state.go2_video_track (named by the session it came from), or None
    conn,             \* per Go2Connection: none/connecting/connected/failed/closing/closed
    pcState,          \* per client-facing RTCPeerConnection: none/open/closing/closed
    rop,              \* per request: which endpoint it runs
    rpc,              \* per request: the suspension point it is at
    robj,             \* per request: the object its local variable holds
    snap,             \* per request: the relay state when the handler was entered
    started,          \* the number of requests served so far
    last,             \* the request that ended last: its endpoint and how it ended
    msg,              \* decoder: the wire message handed to process_webrtc_message
    envelope,         \* decoder: what process_webrtc_message returned for msg
    handled,          \* decoder: how on_data_channel_message ended for msg, and after what
    vid,              \* "vid on" publishes made by the request that ended last
    validated_go2,    \* the Go2Connections whose on_validated callback has run
    subscribed_on,    \* per Go2Connection: the session its on_validated callback addressed
    is_validated,     \* session: Go2Connection.is_validated
    readyState,       \* session: data_channel.readyState of the robot data channel
    stored,           \* session: state.go2 holds this session
    client_dc,        \* session: state.relay_rtc_data_channel, "none" or its readyState
    robot_in,         \* session: the messages that arrived on the robot data channel
    client_out,       \* session: the messages sent on the client-facing data channel
    client_in,        \* session: the messages that arrived on the client-facing data channel
    robot_out,        \* session: the messages sent on the robot data channel, and by what
    validated_calls,  \* session: how many times on_validated was invoked
    traffic_task,     \* session: the disableTrafficSaving task on_validated creates
    dpc,              \* session: where disconnect() is
    closes,           \* session: the closes the current or last disconnect() attempted
    raised,           \* session: those of them that raised
    disconnects,      \* session: calls of disconnect() so far
    returned,         \* session: how the last disconnect() ended
    calls,            \* session: per call of on_data_channel_message, what it did
    publishes,        \* session: per call of publish() by the relay, how it ended
    exc,              \* errors: the exception that left an endpoint
    aliased,          \* errors: asyncio.TimeoutError is the builtin TimeoutError (Python >= 3.11)
    err_json,         \* errors: the response the relay gave for exc, "none" before
    recreated,        \* errors: what recreate_and_raise_exception raised from err_json
    on_video_frame,   \* tracks: a video callback is registered
    track_calls,      \* tracks: per call of on_track, the track's kind and what happened
    cpos,             \* handshake: the step Go2Connection.connect() is about to attempt, or "idle"
    attempted,        \* handshake: the steps the current call of connect() attempted, in order
    connects,         \* handshake: per finished call of connect(), what it attempted and how it ended
    plain,            \* padding: the bytes of the plain text handed to aes_ecb_encrypt_base64_str
    aes_key,          \* padding: the AES key both calls are given
    enc_b64,          \* padding: what aes_ecb_encrypt_base64_str returned, "none" before
    decrypted,        \* padding: how aes_ecb_decrypt_base64_str ended on enc_b64, "none" before
    frame_q,          \* viewer: VoxelMapViewer._q, the frames queued, oldest first
    ppc,              \* viewer: where the thread that calls submit_u8 is
    submitted,        \* viewer: calls of submit_u8 that returned; call n submits frame n
    received,         \* viewer: the frames the viewer thread took from the queue, in order
    dropped,          \* viewer: the frames submit_u8 took from the queue and discarded
    stopped,          \* viewer: close() was called and the viewer thread has left its loop
    mock_pc,          \* mock robot: per connection, where it is between on_con_ing and the end of _cleanup_pc
    _pending_validation,\* mock robot: per connection, the nonce sent and not yet answered, "" for None
    _validated,       \* mock robot: per connection, the validation response matched
    _subscriptions,   \* mock robot: per connection, the topics subscribed to
    _pub_tasks,       \* mock robot: per connection, the publisher task the dict holds: none, running or done
    live_tasks,       \* mock robot: per connection, the publisher tasks created and not done
    mock_in,          \* mock robot: per connection, the messages on_message handled, each with the nonce pending then
    mock_sent,        \* mock robot: per connection, the messages sent on its data channel
    mock_read         \* mock robot: how many of the messages the session sent have reached connection 1

relayState == <<go2, relay_pc, relay_dc, go2_video_track>>
vars == <<go2, relay_pc, relay_dc, go2_video_track, conn, pcState,
          rop, rpc, robj, snap, started, last, vid, validated_go2, subscribed_on>>
decoderVars == <<msg, envelope, handled>>
errorVars == <<exc, aliased, err_json, recreated>>
trackVars == <<on_video_frame, track_calls>>
sessionVars == <<is_validated, readyState, stored, client_dc, robot_in, client_out, client_in,
                 robot_out, validated_calls, traffic_task, dpc, closes, raised, disconnects,
                 returned, calls, publishes>>
connectVars == <<cpos, attempted, connects>>
padVars == <<plain, aes_key, enc_b64, decrypted>>
viewerVars == <<frame_q, ppc, submitted, received, dropped, stopped>>
mockVars == <<mock_pc, _pending_validation, _validated, _subscriptions, _pub_tasks, live_tasks, mock_in, mock_sent, mock_read>>
extraVars == <<connectVars, padVars, viewerVars, mockVars>>

ConnectIdle ==
    /\ cpos = "idle"
    /\ attempted = <<>>
    /\ connects = <<>>

PadIdle ==
    /\ plain = <<>>
    /\ aes_key = 1
    /\ enc_b64 = [called |-> FALSE, raised |-> "none", value |-> <<>>]
    /\ decrypted = [called |-> FALSE, raised |-> "none", value |-> <<>>]

ViewerIdle ==
    /\ frame_q = <<>>
    /\ ppc = "idle"
    /\ submitted = 0
    /\ received = <<>>
    /\ dropped = {}
    /\ stopped = FALSE

MockIdle ==
    /\ mock_pc = [pc \in 1..2 |-> "none"]
    /\ _pending_validation = [pc \in 1..2 |-> ""]
    /\ _validated = [pc \in 1..2 |-> FALSE]
    /\ _subscriptions = [pc \in 1..2 |-> {}]
    /\ _pub_tasks = [pc \in 1..2 |-> "none"]
    /\ live_tasks = [pc \in 1..2 |-> 0]
    /\ mock_in = [pc \in 1..2 |-> <<>>]
    /\ mock_sent = [pc \in 1..2 |-> <<>>]
    /\ mock_read = 0

ExtraIdle == ConnectIdle /\ PadIdle /\ ViewerIdle /\ MockIdle

NoSnap == [go2 |-> None, pc |-> None, dc |-> None, track |-> None]
Snapshot == [go2 |-> go2, pc |-> relay_pc, dc |-> relay_dc, track |-> go2_video_track]

\* The relay as lifespan constructs it: nothing stored, no request accepted yet.
RelayIdle ==
    /\ go2 = None
    /\ relay_pc = None
    /\ relay_dc = None
    /\ go2_video_track = None
    /\ conn = [g \in Go2Ids |-> "none"]
    /\ pcState = [p \in PcIds |-> "none"]
    /\ rop = [r \in ReqIds |-> "idle"]
    /\ rpc = [r \in ReqIds |-> "idle"]
    /\ robj = [r \in ReqIds |-> None]
    /\ snap = [r \in ReqIds |-> NoSnap]
    /\ started = 0
    /\ last = [op |-> "none", res |-> "none"]
    /\ vid = 0
    /\ validated_go2 = {}
    /\ subscribed_on = [g \in Go2Ids |-> None]

\* ------------------------------------- one robot session and the relay's routing
\* One Go2Connection as the connect endpoint constructs it (decode_message=False,
\* on_message, on_validated and on_video_frame registered), the robot data channel
\* it owns and the client-facing data channel the relay stores.  The handlers are
\* synchronous: one action is one call of a handler, from entry to return.
MaxRobotMsgs == 2       \* messages the robot sends in one run
MaxClientMsgs == 2      \* messages the client sends in one run
MaxDisconnects == 2     \* calls of Go2Connection.disconnect() in one run
MaxPublishes == 1       \* calls of Go2Connection.publish() from outside in one run

\* What a data channel carries: a str or a bytes object.  The content is written as
\* the key/value pairs of the JSON object it spells (in the order they are written),
\* or marked as not being JSON at all.
Message(kind, json, pairs) == [kind |-> kind, json |-> json, pairs |-> pairs]
Text(pairs) == Message("str", TRUE, pairs)

ValidationOk == Text(<<<<"type", "validation">>, <<"data", "Validation Ok.">>>>)
ValidationNearOk == Text(<<<<"type", "validation">>, <<"data", "Validation Ok">>>>)
NotJson == Message("str", FALSE, <<<<"text", "not json">>>>)
Telemetry == Text(<<<<"type", "msg">>, <<"topic", "rt/lf/lowstate">>, <<"data", "Validation Ok.">>>>)
LidarBytes == Message("bytes", FALSE, <<<<"bytes", "voxel map">>>>)
ValidationOkBytes == Message("bytes", TRUE, ValidationOk.pairs)
RobotMessages == {ValidationOk, ValidationNearOk, NotJson, Telemetry, ValidationOkBytes}

Command == Text(<<<<"type", "msg">>, <<"topic", "rt/api/sport/request">>, <<"data", "StandUp">>>>)
ClientMessages == {Command, NotJson, LidarBytes}

\* json.loads of a text: the dict of its pairs, or JSONDecodeError.
\* parse_datachannel_message, lines 16-24, turns every exception into ValueError.
parse_datachannel_message(raw_message) ==
    IF raw_message.json
    THEN [raised |-> FALSE,
          keys |-> {raw_message.pairs[i][1] : i \in DOMAIN raw_message.pairs},
          pairs |-> raw_message.pairs]
    ELSE [raised |-> TRUE, keys |-> {}, pairs |-> <<>>]

\* raw_message_obj[key], for a key the dict has.
Get(obj, key) == obj.pairs[CHOOSE i \in DOMAIN obj.pairs : obj.pairs[i][1] = key][2]

\* publish, lines 221-227: json.dumps({"type": msg_type, "topic": topic, "data": data}).
Payload_str(topic, data, msg_type) ==
    Text(<<<<"type", msg_type>>, <<"topic", topic>>, <<"data", data>>>>)

\* ValidationCrypto.encrypt_key: the MD5 digest of "UnitreeGo2_" + key, in hex, turned
\* into base64.  The digest and the encoding are written as terms over their input.
md5_hex(str) == "md5(" \o str \o ")"
hex_to_base64(hex_str) == "base64(" \o hex_str \o ")"
encrypt_key(key) == hex_to_base64(md5_hex("UnitreeGo2_" \o key))

\* validate_robot_conn, lines 204-205.
encrypted_key(validation_key) == encrypt_key(validation_key)

VidOn == Payload_str("", "on", "vid")
\* validate_robot_conn, line 206.
ValidationResponse_Echo(validation_key) == Payload_str("", validation_key, "validation")
ValidationResponse(validation_key) == Payload_str("", encrypted_key(validation_key), "validation")
\* _on_go2_validated, lines 56-61, for a one-topic topics_to_subscribe_to.
Subscribe == Text(<<<<"type", "subscribe">>, <<"topic", "rt/lf/lowstate">>>>)
LidarSwitchOn == Payload_str("rt/utlidar/switch", "on", "msg")
\* disableTrafficSaving, lines 258-263.
TrafficSavingOff == Payload_str("", "disable_traffic_saving on", "rtc_inner_req")

\* RTCDataChannel.send on the robot data channel, as publish (line 229) calls it: it
\* raises unless the channel is open, and publish catches and logs what it raises.
Sent(out, rs, via, m) == IF rs = "open" THEN Append(out, [via |-> via, m |-> m]) ELSE out

\* Go2Connection.__init__, lines 63-93, and the relay before the session is stored.
SessionCreated ==
    /\ is_validated = FALSE
    /\ readyState = "connecting"
    /\ stored = FALSE
    /\ client_dc = "none"
    /\ robot_in = <<>>
    /\ client_out = <<>>
    /\ client_in = <<>>
    /\ robot_out = <<>>
    /\ validated_calls = 0
    /\ traffic_task = "none"
    /\ dpc = "idle"
    /\ closes = <<>>
    /\ raised = {}
    /\ disconnects = 0
    /\ returned = "none"
    /\ calls = <<>>
    /\ publishes = <<>>

\* on_data_channel_message, line 125: "if not self.is_validated and isinstance(message, str)".
InspectsForValidation_Always(validated, message) == message.kind = "str"
InspectsForValidation(validated, message) == ~validated /\ message.kind = "str"

\* validate_robot_conn, line 190: 'if message == "Validation Ok."'.
IsSuccessMarker_Loose(data) == data \in {"Validation Ok.", "Validation Ok"}
IsSuccessMarker(data) == data = "Validation Ok."

\* on_data_channel_message, lines 125-129: what inspecting the message raises.  A text
\* that is not JSON raises ValueError in parse_datachannel_message; a JSON object
\* without 'type', or a validation message without 'data', raises KeyError.
Raises(validated, message) ==
    IF ~InspectsForValidation(validated, message) THEN "none"
    ELSE LET raw_message_obj == parse_datachannel_message(message)
         IN  IF raw_message_obj.raised THEN "ValueError"
             ELSE IF "type" \notin raw_message_obj.keys THEN "KeyError"
             ELSE IF Get(raw_message_obj, "type") = "validation"
                     /\ "data" \notin raw_message_obj.keys THEN "KeyError"
             ELSE "none"

\* The exceptions the handler's try catches (except Exception, line 167), of those
\* handling a text message can raise.
Caught_None == {}
Caught == {"KeyError", "ValueError"}

\* on_data_channel_message, lines 125-142, for a session with decode_message=False:
\* where the message goes.  "raised" is any exception, caught and logged at line 167.
Route(validated, message) ==
    IF InspectsForValidation(validated, message)
    THEN LET raw_message_obj == parse_datachannel_message(message)
         IN  IF raw_message_obj.raised THEN "raised"
             ELSE IF "type" \notin raw_message_obj.keys THEN "raised"
             ELSE IF Get(raw_message_obj, "type") = "validation"
                  THEN IF "data" \notin raw_message_obj.keys THEN "raised"
                       ELSE IF IsSuccessMarker(Get(raw_message_obj, "data"))
                            THEN "validated" ELSE "challenge"
             ELSE "on_message"
    ELSE "on_message"

\* on_data_channel_message, line 141: RobotData(robot_id, timestamp=0.0, raw_message=message).
RobotData(message) == [robot_id |-> "0", timestamp |-> "0.0", raw_message |-> message]

\* _on_go2_message, line 35: the stored client-facing data channel takes a message.
RelayChannelOpen_Any(dc) == TRUE
RelayChannelOpen(dc) == dc = "open"

\* _on_go2_message, lines 40-44: what is sent for a bytes or a str raw_message.
RelayedMessage_AsText(robot_data) == Message("str", robot_data.raw_message.json, robot_data.raw_message.pairs)
RelayedMessage(robot_data) == robot_data.raw_message

\* _on_go2_message, lines 29-49.
on_go2_message(out, dc, robot_data) ==
    IF RelayChannelOpen(dc) THEN Append(out, RelayedMessage(robot_data)) ELSE out

\* _on_go2_validated, lines 51-63, called at validate_robot_conn line 199 with the
\* robot data channel open: nothing if state.go2 is not this session yet.
on_go2_validated(out) ==
    IF stored
    THEN Append(Append(out, [via |-> "send", m |-> Subscribe]),
                [via |-> "publish", m |-> LidarSwitchOn])
    ELSE out

\* on_data_channel_open, lines 102-110.
DataChannelOpen ==
    /\ readyState = "connecting"
    /\ readyState' = "open"
    /\ UNCHANGED <<calls, publishes, is_validated, stored, client_dc, robot_in, client_out, client_in, robot_out,
                   validated_calls, traffic_task, dpc, closes, raised, disconnects, returned>>
    /\ UNCHANGED <<vars, decoderVars, errorVars, trackVars, extraVars>>

\* The robot's side of the data channel goes away.
DataChannelClosed ==
    /\ readyState = "open"
    /\ readyState' = "closed"
    /\ UNCHANGED <<calls, publishes, is_validated, stored, client_dc, robot_in, client_out, client_in, robot_out,
                   validated_calls, traffic_task, dpc, closes, raised, disconnects, returned>>
    /\ UNCHANGED <<vars, decoderVars, errorVars, trackVars, extraVars>>

\* on_data_channel_message, lines 112-168, with validate_robot_conn (186-209) and the
\* callbacks it reaches.  Lines 117-118 force the channel open first.
RobotMessage(message) ==
    /\ Len(robot_in) < MaxRobotMsgs
    /\ readyState \in {"connecting", "open"}
    /\ readyState' = "open"
    /\ robot_in' = Append(robot_in, message)
    /\ LET to == Route(is_validated, message)
           data == Get(parse_datachannel_message(message), "data")
       IN  /\ is_validated' = (is_validated \/ to = "validated")
           /\ validated_calls' = IF to = "validated" THEN validated_calls + 1 ELSE validated_calls
           /\ traffic_task' = IF to = "validated" /\ stored THEN "scheduled" ELSE traffic_task
           /\ robot_out' =
                 CASE to = "validated" ->
                        on_go2_validated(Sent(robot_out, "open", "publish", VidOn))
                   [] to = "challenge" ->
                        Sent(robot_out, "open", "publish", ValidationResponse(data))
                   [] OTHER -> robot_out
           /\ client_out' = IF to = "on_message"
                            THEN on_go2_message(client_out, client_dc, RobotData(message))
                            ELSE client_out
           /\ calls' = Append(calls,
                 [parsed |-> InspectsForValidation(is_validated, message),
                  on_message |-> IF to = "on_message" THEN <<RobotData(message)>> ELSE <<>>,
                  outcome |-> IF Raises(is_validated, message) \in {"none"} \cup Caught
                              THEN "returned" ELSE "raised"])
    /\ UNCHANGED <<stored, client_dc, client_in, dpc, closes, raised, disconnects, returned,
                   publishes>>
    /\ UNCHANGED <<vars, decoderVars, errorVars, trackVars, extraVars>>

\* The task _on_go2_validated created (line 55) runs disableTrafficSaving, lines 246-269.
TrafficSavingTask ==
    /\ traffic_task = "scheduled"
    /\ traffic_task' = "done"
    /\ robot_out' = Sent(robot_out, readyState, "publish", TrafficSavingOff)
    /\ UNCHANGED <<calls, publishes, is_validated, readyState, stored, client_dc, robot_in, client_out, client_in,
                   validated_calls, dpc, closes, raised, disconnects, returned>>
    /\ UNCHANGED <<vars, decoderVars, errorVars, trackVars, extraVars>>

\* A data json.dumps cannot serialize.
NotSerializable == "<object>"

\* publish, lines 220-229: what the body of the try raises. json.dumps raises TypeError
\* on data it cannot serialize; data_channel.send raises unless the channel is open.
PublishRaises_Unvalidated(rs, data) ==
    IF ~is_validated THEN "StateException"
    ELSE IF data = NotSerializable THEN "TypeError"
    ELSE IF rs # "open" THEN "InvalidStateError"
    ELSE "none"
PublishRaises(rs, data) ==
    IF data = NotSerializable THEN "TypeError"
    ELSE IF rs # "open" THEN "InvalidStateError"
    ELSE "none"

\* publish, line 231: except Exception.
PublishCaught == {"TypeError", "InvalidStateError"}

\* publish, lines 211-232, called from outside the session: by the offer endpoint
\* (line 84) or another holder of the session.
Publish(topic, data, msg_type) ==
    /\ Len(publishes) < MaxPublishes
    /\ LET error == PublishRaises(readyState, data)
       IN  /\ robot_out' = IF error = "none"
                           THEN Append(robot_out, [via |-> "publish",
                                                   m |-> Payload_str(topic, data, msg_type)])
                           ELSE robot_out
           /\ publishes' = Append(publishes,
                 [args |-> <<topic, data, msg_type>>,
                  validated |-> is_validated,
                  outcome |-> IF error \in {"none"} \cup PublishCaught
                              THEN "returned" ELSE "raised"])
    /\ UNCHANGED <<calls, is_validated, readyState, stored, client_dc, robot_in, client_out,
                   client_in, validated_calls, traffic_task, dpc, closes, raised, disconnects,
                   returned>>
    /\ UNCHANGED <<vars, decoderVars, errorVars, trackVars, extraVars>>

\* connect endpoint, line 112: go2.connect() returned and the session is stored.
Stored ==
    /\ ~stored
    /\ disconnects = 0
    /\ stored' = TRUE
    /\ UNCHANGED <<calls, publishes, is_validated, readyState, client_dc, robot_in, client_out, client_in, robot_out,
                   validated_calls, traffic_task, dpc, closes, raised, disconnects, returned>>
    /\ UNCHANGED <<vars, decoderVars, errorVars, trackVars, extraVars>>

\* _on_datachannel, lines 40-45: the client's data channel is stored (it is open when
\* the peer connection announces it).
ClientDatachannel ==
    /\ client_dc = "none"
    /\ client_dc' = "open"
    /\ UNCHANGED <<calls, publishes, is_validated, readyState, stored, robot_in, client_out, client_in, robot_out,
                   validated_calls, traffic_task, dpc, closes, raised, disconnects, returned>>
    /\ UNCHANGED <<vars, decoderVars, errorVars, trackVars, extraVars>>

\* The client's data channel closes; the relay keeps the reference.
ClientDatachannelClosed ==
    /\ client_dc = "open"
    /\ client_dc' = "closed"
    /\ UNCHANGED <<calls, publishes, is_validated, readyState, stored, robot_in, client_out, client_in, robot_out,
                   validated_calls, traffic_task, dpc, closes, raised, disconnects, returned>>
    /\ UNCHANGED <<vars, decoderVars, errorVars, trackVars, extraVars>>

\* close_rtc_relay_connection, line 37, or the disconnect endpoint, line 132.
ClientDatachannelCleared ==
    /\ client_dc = "closed"
    /\ client_dc' = "none"
    /\ UNCHANGED <<calls, publishes, is_validated, readyState, stored, robot_in, client_out, client_in, robot_out,
                   validated_calls, traffic_task, dpc, closes, raised, disconnects, returned>>
    /\ UNCHANGED <<vars, decoderVars, errorVars, trackVars, extraVars>>

\* _on_datachannel_message, line 31: "if isinstance(message, str)".
IsForwarded_Any(message) == TRUE
IsForwarded(message) == message.kind = "str"

\* publish_json_str, lines 234-244: nothing is sent unless the channel is open.
publish_json_str(out, rs, json_str) ==
    IF rs # "open" THEN out ELSE Append(out, [via |-> "publish_json_str", m |-> json_str])

\* _on_datachannel_message, lines 22-37.
ClientMessage(message) ==
    /\ Len(client_in) < MaxClientMsgs
    /\ client_dc = "open"
    /\ client_in' = Append(client_in, message)
    /\ robot_out' = IF stored /\ IsForwarded(message)
                    THEN publish_json_str(robot_out, readyState, message)
                    ELSE robot_out
    /\ UNCHANGED <<calls, publishes, is_validated, readyState, stored, client_dc, robot_in, client_out,
                   validated_calls, traffic_task, dpc, closes, raised, disconnects, returned>>
    /\ UNCHANGED <<vars, decoderVars, errorVars, trackVars, extraVars>>

\* disconnect, lines 359-373: each close is in its own try/except Exception, so
\* control goes on to the next statement whether the close returned or raised.
AfterClose_Unguarded(outcome) == IF outcome = "raised" THEN "propagates" ELSE "goes on"
AfterClose(outcome) == "goes on"

Outcomes == {"returned", "raised"}

\* disconnect, lines 357-361, called by the disconnect endpoint (line 136) or by
\* lifespan (lines 31 and 40): it suspends in "await self.pc.close()".
DisconnectCalled ==
    /\ dpc = "idle"
    /\ disconnects < MaxDisconnects
    /\ disconnects' = disconnects + 1
    /\ dpc' = "await_pc_close"
    /\ closes' = <<"pc">>
    /\ raised' = {}
    /\ returned' = "none"
    /\ readyState' = IF readyState = "closed" THEN "closed" ELSE "closing"
    /\ UNCHANGED <<calls, publishes, is_validated, stored, client_dc, robot_in, client_out, client_in, robot_out,
                   validated_calls, traffic_task>>
    /\ UNCHANGED <<vars, decoderVars, errorVars, trackVars, extraVars>>

\* disconnect, lines 361-375: pc.close() returned or raised, then data_channel.close()
\* and http_client.close() return or raise.  When the call returns its caller clears
\* state.go2 (endpoint line 137, lifespan line 41) or leaves it (lifespan line 31).
DisconnectResumed(pc, dc, http, clears) ==
    /\ dpc = "await_pc_close"
    /\ dpc' = "idle"
    /\ LET after_pc == AfterClose(pc)
           after_dc == IF after_pc = "goes on" THEN AfterClose(dc) ELSE after_pc
           after_http == IF after_dc = "goes on" THEN AfterClose(http) ELSE after_dc
       IN  /\ closes' = <<"pc">> \o (IF after_pc = "goes on" THEN <<"dc">> ELSE <<>>)
                                \o (IF after_dc = "goes on" THEN <<"http">> ELSE <<>>)
           /\ raised' = {c \in {"pc"} : pc = "raised"}
                        \cup {c \in {"dc"} : after_pc = "goes on" /\ dc = "raised"}
                        \cup {c \in {"http"} : after_dc = "goes on" /\ http = "raised"}
           /\ returned' = IF after_http = "goes on" THEN "returned" ELSE "raised"
           /\ stored' = IF after_http = "goes on" /\ clears THEN FALSE ELSE stored
    /\ readyState' = "closed"
    /\ UNCHANGED <<calls, publishes, is_validated, client_dc, robot_in, client_out, client_in, robot_out,
                   validated_calls, traffic_task, disconnects>>
    /\ UNCHANGED <<vars, decoderVars, errorVars, trackVars, extraVars>>


\* ------------------------------------------------- errors over the HTTP boundary
\* webrtc_relay.py, lines 50-80, and webrtc_relay_exceptions.py: an exception that
\* leaves an endpoint is answered by the handler registered for the first class of
\* its MRO that has one, and the client rebuilds an exception from the answer.
\* An exception is its class, what it was constructed with, and for an HTTPException
\* its status code.
Details == {"", "Robot connection already exists.", "timed out"}

Exception(kind, detail, status_code) == [kind |-> kind, detail |-> detail, status_code |-> status_code]

\* What an endpoint can end with: the classes handlers are registered for, a subclass
\* of one of them, a class without a handler of its own, and the HTTPException the
\* connect endpoint raises (webrtc_relay_endpoint_go2.py, lines 107-110).
Exceptions ==
    {Exception(kind, detail, 0) :
        kind \in {"StateException", "ValueError", "JSONDecodeError", "KeyError", "IndexError",
                  "RuntimeError", "TimeoutError", "asyncio.TimeoutError", "ConnectionError"},
        detail \in Details}
    \cup {Exception("HTTPException", detail, 502) : detail \in Details}

\* The class a name stands for: asyncio.TimeoutError is the builtin TimeoutError from
\* Python 3.11 on and a class of its own, derived from Exception, before.
Resolve(alias, cls) == IF alias /\ cls = "asyncio.TimeoutError" THEN "TimeoutError" ELSE cls

\* type(exc).__mro__, up to Exception.
Mro(alias, kind) ==
    CASE kind = "JSONDecodeError" -> <<"JSONDecodeError", "ValueError", "Exception">>
      [] kind \in {"KeyError", "IndexError"} -> <<kind, "LookupError", "Exception">>
      [] Resolve(alias, kind) \in {"TimeoutError", "ConnectionError"} ->
            <<Resolve(alias, kind), "OSError", "Exception">>
      [] OTHER -> <<kind, "Exception">>

\* type(exc).__name__, line 80.
TypeName(kind) == IF kind = "asyncio.TimeoutError" THEN "TimeoutError" ELSE kind

\* str(exc), lines 52-80: the argument the exception was constructed with; its repr
\* for a KeyError.
Str(e) ==
    IF e.kind # "KeyError" THEN e.detail
    ELSE CASE e.detail = "" -> "''"
           [] e.detail = "Robot connection already exists." -> "'Robot connection already exists.'"
           [] OTHER -> "'timed out'"

Handler(cls, status_code, exception_type) ==
    [cls |-> cls, status_code |-> status_code, exception_type |-> exception_type]

\* Lines 70-76: the handlers of the two timeout classes.
TimeoutHandlers_None == <<>>
TimeoutHandlers ==
    <<Handler("TimeoutError", 504, "timeout_error"),
      Handler("asyncio.TimeoutError", 504, "asyncio_timeout_error")>>

\* The registrations in the order they are made: FastAPI's own handler of
\* HTTPException (line 45; it answers with the exception's status code and its detail
\* alone), then lines 50-80.  "__name__" stands for type(exc).__name__.
Handlers ==
    <<Handler("HTTPException", 0, ""),
      Handler("StateException", 409, "state_exception"),
      Handler("ValueError", 422, "value_error"),
      Handler("KeyError", 422, "key_error"),
      Handler("IndexError", 422, "index_error"),
      Handler("RuntimeError", 500, "runtime_error")>>
    \o TimeoutHandlers
    \o <<Handler("Exception", 500, "__name__")>>

\* app.exception_handlers[cls]: a later registration for a class replaces an earlier.
Registered(alias, cls) == {i \in DOMAIN Handlers : Resolve(alias, Handlers[i].cls) = cls}

\* The handler of the first class of the MRO that has one.
HandlerFor(alias, kind) ==
    LET mro == Mro(alias, kind)
        k == CHOOSE i \in DOMAIN mro :
                /\ Registered(alias, mro[i]) # {}
                /\ \A j \in 1..(i - 1) : Registered(alias, mro[j]) = {}
        regs == Registered(alias, mro[k])
    IN  Handlers[CHOOSE i \in regs : \A j \in regs : j <= i]

\* The JSONResponse of the handler: its status code and the keys of its body.
NoResponse == [status_code |-> 0, keys |-> {}, detail |-> "", exception_type |-> ""]

Response(alias, e) ==
    LET h == HandlerFor(alias, e.kind)
    IN  IF h.cls = "HTTPException"
        THEN [status_code |-> e.status_code, keys |-> {"detail"},
              detail |-> e.detail, exception_type |-> ""]
        ELSE [status_code |-> h.status_code, keys |-> {"detail", "exception_type"},
              detail |-> Str(e),
              exception_type |-> IF h.exception_type = "__name__" THEN TypeName(e.kind)
                                 ELSE h.exception_type]

\* recreate_and_raise_exception, lines 17-32: the class raised for a tag.
KindOfTag_TimeoutOnly(exception_type) ==
    CASE exception_type = "runtime_error" -> "RuntimeError"
      [] exception_type = "value_error" -> "ValueError"
      [] exception_type = "index_error" -> "IndexError"
      [] exception_type = "key_error" -> "KeyError"
      [] exception_type = "state_exception" -> "StateException"
      [] exception_type = "timeout_error" -> "TimeoutError"
      [] OTHER -> "Exception"
KindOfTag(exception_type) ==
    CASE exception_type = "runtime_error" -> "RuntimeError"
      [] exception_type = "value_error" -> "ValueError"
      [] exception_type = "index_error" -> "IndexError"
      [] exception_type = "key_error" -> "KeyError"
      [] exception_type = "state_exception" -> "StateException"
      [] exception_type = "timeout_error" -> "TimeoutError"
      [] exception_type = "asyncio_timeout_error" -> "TimeoutError"
      [] OTHER -> "Exception"

\* What the client raises: its class, the form of its message and what the message
\* is made of.
Raised(kind, message, detail, exception_type) ==
    [kind |-> kind, message |-> message, detail |-> detail, exception_type |-> exception_type]
NotRecreated == Raised("none", "", "", "")

\* recreate_and_raise_exception, lines 7-32.
recreate_and_raise_exception(json) ==
    IF "detail" \notin json.keys
    THEN Raised("Exception", "detail and type unknown", "", "")
    ELSE IF "exception_type" \notin json.keys
    THEN Raised("Exception", "type unknown. {detail=}", json.detail, "")
    ELSE LET kind == KindOfTag(json.exception_type)
         IN  Raised(kind,
                    CASE json.exception_type = "asyncio_timeout_error" ->
                            "asyncio.TimeoutError, {detail=}"
                      [] kind = "Exception" -> "{exception_type=} : {detail=}"
                      [] OTHER -> "{detail}",
                    json.detail,
                    IF kind = "Exception" THEN json.exception_type ELSE "")

\* No request has failed.
ErrorsIdle ==
    /\ exc = Exception("none", "", 0)
    /\ aliased = TRUE
    /\ err_json = NoResponse
    /\ recreated = NotRecreated

\* An exception leaves an endpoint and the relay answers it.
Respond ==
    /\ err_json = NoResponse
    /\ err_json' = Response(aliased, exc)
    /\ UNCHANGED <<exc, aliased, recreated>>
    /\ UNCHANGED <<vars, decoderVars, sessionVars, trackVars, extraVars>>

\* webrtc_relay_client.py, lines 162-165 and 204-207: the client got a status code
\* other than 200 and calls recreate_and_raise_exception(r.json()).
Recreate ==
    /\ err_json # NoResponse
    /\ err_json.status_code # 200
    /\ recreated = NotRecreated
    /\ recreated' = recreate_and_raise_exception(err_json)
    /\ UNCHANGED <<exc, aliased, err_json>>
    /\ UNCHANGED <<vars, decoderVars, sessionVars, trackVars, extraVars>>

\* ------------------------------------------------------------ inbound media tracks
\* Go2Connection.on_track, lines 170-184, registered for the peer connection's
\* "track" event at line 88.
MaxTracks == 4          \* tracks the robot adds in one run

TrackKinds == {"audio", "video"}

\* Line 183: except Exception, around the call of the callback.
TrackCaught_None == {}
TrackCaught == {"Exception"}

\* on_track, lines 170-184, for a track of the kind and a callback that returns or
\* raises when it is called: how often the callback was called, how it ended, and
\* how on_track ended.
on_track(registered, kind, callback) ==
    IF kind # "video" THEN [kind |-> kind, called |-> 0, callback |-> "not called", outcome |-> "returned"]
    ELSE IF ~registered
    THEN [kind |-> kind, called |-> 0, callback |-> "not called", outcome |-> "returned"]
    ELSE [kind |-> kind, called |-> 1, callback |-> callback,
          outcome |-> IF callback = "Exception" /\ callback \notin TrackCaught
                      THEN "raised" ELSE "returned"]

\* No track has arrived.
TracksIdle ==
    /\ on_video_frame = TRUE
    /\ track_calls = <<>>

\* The robot adds a track and the "track" event calls on_track.
Track(kind, callback) ==
    /\ Len(track_calls) < MaxTracks
    /\ track_calls' = Append(track_calls, on_track(on_video_frame, kind, callback))
    /\ UNCHANGED on_video_frame
    /\ UNCHANGED <<vars, decoderVars, sessionVars, errorVars, extraVars>>

\* ------------------------------------------- telemetry decoder (pure functions)
\* go2_message_parsers.py.  A JSON value is a scalar, a list of scalars, or absent
\* (the key is not in its dict).  Scalars are written as JSON writes them.
MaxBad == 2         \* fields of one message that differ from a well-formed one
MaxLen == 2         \* elements of a numeric list

IntScalars == {"1"}
FloatScalars == {"0.5", "1.0"}
NonFinite == {"NaN", "Infinity", "-Infinity"}
Scalars == IntScalars \cup FloatScalars \cup NonFinite \cup {"text"}

Scalar(x) == [k |-> "scalar", v |-> <<x>>]
List(q) == [k |-> "list", v |-> q]
Absent == [k |-> "absent", v |-> <<>>]
Null == [k |-> "null", v |-> <<>>]

\* isinstance(x, (int, float)) and math.isfinite(x)
IsFinite(x) == x \in IntScalars \cup FloatScalars

\* float(value) on a finite number.
ToFloat(x) == IF x = "1" THEN "1.0" ELSE x

\* The fields of the four payloads, nested keys flattened.
OdomFields == {"pose.position.x", "pose.position.y", "pose.position.z",
               "pose.orientation.x", "pose.orientation.y", "pose.orientation.z",
               "pose.orientation.w"}
StateListFields == {"position", "velocity", "range_obstacle", "foot_force",
                    "foot_position_body", "foot_speed_body"}
StateScalarFields == {"mode", "progress", "gait_type", "body_height"}
StateFields == StateListFields \cup StateScalarFields
ImuListFields == {"imu_state.quaternion", "imu_state.accelerometer",
                  "imu_state.gyroscope", "imu_state.rpy"}
ImuFields == ImuListFields \cup {"imu_state.temperature"}
SportFields == StateFields \cup ImuFields
LowFields == {"motor_state"}
LidarFields == {"decoded_data", "decoded_data.positions", "data"}
AllFields == OdomFields \cup SportFields \cup LowFields \cup LidarFields
ListFields == StateListFields \cup ImuListFields \cup {"motor_state", "decoded_data.positions"}

NoData == [f \in AllFields |-> Absent]
NoPayload == [some |-> FALSE, f |-> <<>>]
Payload(fields, data) == [some |-> TRUE, f |-> [x \in fields |-> data[x]]]

\* _validated_float_list, lines 140-144: data itself if every element is a finite
\* number; otherwise (or if data cannot be iterated) it raises.
validated_float_list(d) ==
    [ok |-> d.k = "list" /\ \A i \in 1..Len(d.v) : IsFinite(d.v[i]), val |-> d]

\* _validated_float, lines 146-150: float(value) if value is a finite number.
validated_float(d) ==
    IF d.k = "scalar" /\ IsFinite(d.v[1])
    THEN [ok |-> TRUE, val |-> Scalar(ToFloat(d.v[1]))]
    ELSE [ok |-> FALSE, val |-> d]

\* parse_odometry_data, lines 78-99: the seven values must be there (KeyError) and be
\* finite numbers (ValueError); position and orientation are passed on as received.
parse_odometry_data(data) ==
    IF \A f \in OdomFields : data[f].k # "absent" /\ data[f].k = "scalar" /\ IsFinite(data[f].v[1])
    THEN Payload(OdomFields, data)
    ELSE NoPayload

\* The fields parse_sport_mode_state passes through _validated_float_list.
ValidatedLists_NoImu == {"position", "range_obstacle", "foot_position_body", "foot_speed_body"}
ValidatedLists == {"position", "range_obstacle", "foot_position_body", "foot_speed_body",
                   "imu_state.quaternion", "imu_state.accelerometer",
                   "imu_state.gyroscope", "imu_state.rpy"}

\* parse_sport_mode_state, lines 101-129: every key must be there (KeyError), the
\* validated fields must validate (ValueError); any exception gives None for both.
SportOk(data) ==
    /\ \A f \in SportFields : data[f].k # "absent"
    /\ \A f \in ValidatedLists : validated_float_list(data[f]).ok
    /\ validated_float(data["body_height"]).ok

SportValues(data) ==
    [f \in SportFields |-> IF f = "body_height" THEN validated_float(data[f]).val
                           ELSE IF f \in ValidatedLists THEN validated_float_list(data[f]).val
                           ELSE data[f]]

parse_sport_mode_state(data) ==
    IF SportOk(data)
    THEN LET values == SportValues(data)
         IN  [ok |-> TRUE, robot_state |-> Payload(StateFields, values),
                           imu_data |-> Payload(ImuFields, values)]
    ELSE [ok |-> FALSE, robot_state |-> NoPayload, imu_data |-> NoPayload]

\* parse_low_state, lines 131-138.
parse_low_state(data) ==
    IF data["motor_state"].k # "absent" THEN Payload(LowFields, data) ELSE NoPayload

\* parse_lidar_data, lines 53-76: decoded_data None gives None (line 58); a missing key
\* gives None (the except of line 74).
parse_lidar_data_Unchecked(data) ==
    IF data["data"].k # "absent" THEN Payload(LidarFields, data) ELSE NoPayload
parse_lidar_data(data) ==
    IF /\ data["decoded_data"].k = "scalar"
       /\ data["decoded_data.positions"].k # "absent"
       /\ data["data"].k # "absent"
    THEN Payload(LidarFields, data)
    ELSE NoPayload

Topics == {"ULIDAR_ARRAY", "ROBOTODOM", "LF_SPORT_MOD_STATE", "LOW_STATE", "ULIDAR_STATE"}
Types == {"msg", "validation"}

NoEnvelope_Reused(ret) ==
    [ret |-> ret, lidar_data |-> NoPayload, odometry_data |-> NoPayload,
     robot_state |-> NoPayload, imu_data |-> NoPayload,
     joint_data |-> Payload(LowFields, NoData)]
NoEnvelope(ret) ==
    [ret |-> ret, lidar_data |-> NoPayload, odometry_data |-> NoPayload,
     robot_state |-> NoPayload, imu_data |-> NoPayload, joint_data |-> NoPayload]

\* process_webrtc_message, lines 26-51. The result is None, a RobotData, or the
\* KeyError of msg['data'] on a message that has no 'data' key (lines 37, 40, 45; the
\* lidar parser looks the key up itself, inside its try).
Dispatched_All == Topics
Dispatched == {"ULIDAR_ARRAY", "ROBOTODOM", "LF_SPORT_MOD_STATE", "LOW_STATE"}

process_webrtc_message(m) ==
    IF m.type # "msg" THEN NoEnvelope("None")
    ELSE IF m.topic \notin Dispatched THEN NoEnvelope("None")
    ELSE IF m.topic = "ULIDAR_ARRAY"
         THEN [NoEnvelope("RobotData") EXCEPT !.lidar_data = parse_lidar_data(m.data)]
    ELSE IF ~m.has_data THEN NoEnvelope("KeyError")
    ELSE IF m.topic = "ROBOTODOM"
         THEN [NoEnvelope("RobotData") EXCEPT !.odometry_data = parse_odometry_data(m.data)]
    ELSE IF m.topic = "LF_SPORT_MOD_STATE"
         THEN LET ret == parse_sport_mode_state(m.data)
              IN  IF ret.ok
                  THEN [NoEnvelope("RobotData") EXCEPT !.robot_state = ret.robot_state,
                                                       !.imu_data = ret.imu_data]
                  ELSE NoEnvelope("RobotData")
    ELSE [NoEnvelope("RobotData") EXCEPT !.joint_data = parse_low_state(m.data)]

\* Wire messages: a well-formed message of each topic with up to MaxBad of its fields
\* replaced by another value (a non-finite or non-numeric element, the wrong shape,
\* or the key left out).
GoodList == [i \in 1..MaxLen |-> IF i = 1 THEN "1" ELSE "0.5"]
ListValues ==
    {List(GoodList), List(<<>>), Absent, Scalar("1")}
        \cup {List([GoodList EXCEPT ![i] = "NaN"]) : i \in 1..MaxLen}
        \cup {List([GoodList EXCEPT ![1] = x]) : x \in {"Infinity", "text"}}
        \cup {List([GoodList EXCEPT ![MaxLen] = "-Infinity"])}
ScalarValues == {Scalar(x) : x \in Scalars} \cup {Absent, List(GoodList)}
\* The decoded buffer of a lidar message is None when the external decoder failed.
ValuesOf(f) ==
    IF f \in ListFields THEN ListValues
    ELSE IF f = "decoded_data" THEN ScalarValues \cup {Null}
    ELSE ScalarValues

FieldsOf(topic) ==
    CASE topic = "ULIDAR_ARRAY" -> LidarFields
      [] topic = "ROBOTODOM" -> OdomFields
      [] topic = "LF_SPORT_MOD_STATE" -> SportFields
      [] topic = "LOW_STATE" -> LowFields
      [] OTHER -> {}

GoodValue(f) == IF f \in ListFields THEN List(GoodList) ELSE Scalar("0.5")
GoodData(topic) ==
    [f \in AllFields |-> IF f \notin FieldsOf(topic) THEN Absent ELSE GoodValue(f)]

\* The well-formed message of a topic, as the robot sends it.
WellFormed(topic) == [type |-> "msg", topic |-> topic, has_data |-> TRUE, data |-> GoodData(topic)]

\* The fields in which m differs from the well-formed message of its topic.
BadFields(m) == {f \in FieldsOf(m.topic) : m.data[f] # GoodValue(f)}

\* The fields in a fixed order: a message is written one field after the other.
FieldSeq ==
    <<"pose.position.x", "pose.position.y", "pose.position.z",
      "pose.orientation.x", "pose.orientation.y", "pose.orientation.z", "pose.orientation.w",
      "mode", "progress", "gait_type", "position", "body_height", "velocity",
      "range_obstacle", "foot_force", "foot_position_body", "foot_speed_body",
      "imu_state.quaternion", "imu_state.accelerometer", "imu_state.gyroscope",
      "imu_state.rpy", "imu_state.temperature",
      "motor_state", "decoded_data", "decoded_data.positions", "data">>
Idx(f) == CHOOSE i \in DOMAIN FieldSeq : FieldSeq[i] = f

Pending == NoEnvelope("pending")

\* No message handled yet.
NotHandled == [after |-> "none", outcome |-> "none", on_message |-> 0]

\* The decoder at rest: no message under decode.
DecoderIdle ==
    /\ msg = [type |-> "msg", topic |-> "ULIDAR_STATE", has_data |-> TRUE, data |-> NoData]
    /\ envelope = Pending
    /\ handled = NotHandled

\* The robot's message has value v at field f where a well-formed one has another:
\* a non-finite or non-numeric element, the wrong shape, or the key left out.
Malformed(f, v) ==
    /\ envelope.ret = "pending"
    /\ handled.after = "none"
    /\ msg.type = "msg"
    /\ msg.has_data
    /\ f \in FieldsOf(msg.topic)
    /\ v # GoodValue(f)
    /\ Cardinality(BadFields(msg)) < MaxBad
    /\ \A g \in BadFields(msg) : Idx(g) < Idx(f)
    /\ msg' = [msg EXCEPT !.data[f] = v, !.has_data = ~(f = "data" /\ v = Absent)]
    /\ UNCHANGED <<envelope, handled>>
    /\ UNCHANGED <<vars, sessionVars, errorVars, trackVars, extraVars>>

\* The robot's message has no 'data' key at all (a lidar message without one is
\* Malformed("data", Absent): its 'data' is a key next to 'decoded_data').
DataLeftOut ==
    /\ envelope.ret = "pending"
    /\ handled.after = "none"
    /\ msg.has_data
    /\ msg.topic # "ULIDAR_ARRAY"
    /\ msg.type = "msg" => BadFields(msg) = {}
    /\ msg' = [msg EXCEPT !.has_data = FALSE, !.data = NoData]
    /\ UNCHANGED <<envelope, handled>>
    /\ UNCHANGED <<vars, sessionVars, errorVars, trackVars, extraVars>>

\* Go2Connection.on_data_channel_message with decode_message set and a callback
\* registered, lines 112-168, for a text message that is JSON: the message is decoded
\* (151), a RobotData is handed to on_message (163-165), an exception is logged (167).
\* A message of type 'msg' is no validation message, so lines 125-129 pass it on
\* whatever is_validated is.
Decode ==
    /\ envelope.ret = "pending"
    /\ envelope' = process_webrtc_message(msg)
    /\ handled' = [handled EXCEPT
            !.outcome = IF envelope'.ret \in {"None", "RobotData"} \cup Caught
                        THEN "returned" ELSE "raised",
            !.on_message = IF envelope'.ret = "RobotData" THEN 1 ELSE 0]
    /\ UNCHANGED msg
    /\ UNCHANGED <<vars, sessionVars, errorVars, trackVars, extraVars>>

\* The message handled was malformed telemetry.
WasBad == msg.type = "msg" /\ (BadFields(msg) # {} \/ ~msg.has_data)

\* The next message arrives on the same session, and it is well-formed.
NextMessage(topic) ==
    /\ envelope.ret # "pending"
    /\ handled.after = "none"
    /\ msg' = WellFormed(topic)
    /\ envelope' = Pending
    /\ handled' = [NotHandled EXCEPT !.after = IF WasBad THEN "bad" ELSE "good"]
    /\ UNCHANGED <<vars, sessionVars, errorVars, trackVars, extraVars>>

\* A message of any topic and type is about to arrive; one of a topic that is not
\* dispatched, or not of type 'msg', may carry the data of any topic.
DecoderInit ==
    /\ RelayIdle
    /\ ExtraIdle
    /\ SessionCreated
    /\ ErrorsIdle
    /\ TracksIdle
    /\ msg \in {[type |-> ty, topic |-> tp, has_data |-> TRUE, data |-> GoodData(d)] :
                    ty \in Types, tp \in Topics, d \in Topics}
    /\ msg.type = "msg" /\ msg.topic \in Dispatched => msg = WellFormed(msg.topic)
    /\ envelope = Pending
    /\ handled = NotHandled

DecoderNext ==
    \/ /\ envelope.ret = "pending"
       /\ Cardinality(BadFields(msg)) < MaxBad
       /\ \E f \in FieldsOf(msg.topic) : \E v \in ValuesOf(f) : Malformed(f, v)
    \/ DataLeftOut
    \/ Decode
    \/ \E topic \in Topics : NextMessage(topic)

SpecDecoder == DecoderInit /\ [][DecoderNext]_decoderVars

Init == RelayIdle /\ DecoderIdle /\ SessionCreated /\ ErrorsIdle /\ TracksIdle /\ ExtraIdle

\* An exception of any class leaves an endpoint, on either Python.
ErrorsInit ==
    /\ RelayIdle
    /\ ExtraIdle
    /\ DecoderIdle
    /\ SessionCreated
    /\ TracksIdle
    /\ exc \in Exceptions
    /\ aliased \in BOOLEAN
    /\ err_json = NoResponse
    /\ recreated = NotRecreated

ErrorsNext == Respond \/ Recreate

SpecErrors == ErrorsInit /\ [][ErrorsNext]_errorVars

\* A session with or without a video callback; tracks of any kind arrive.
TracksInit ==
    /\ RelayIdle
    /\ ExtraIdle
    /\ DecoderIdle
    /\ SessionCreated
    /\ ErrorsIdle
    /\ on_video_frame \in BOOLEAN
    /\ track_calls = <<>>

TracksNext == \E kind \in TrackKinds, callback \in {"returned", "Exception"} : Track(kind, callback)

SpecTracks == TracksInit /\ [][TracksNext]_trackVars

\* The session alone: its data channel, the robot's messages, the session being stored
\* and disconnect() called at any time, each close returning or raising.
SessionNext ==
    \/ DataChannelOpen
    \/ DataChannelClosed
    \/ \E message \in RobotMessages : RobotMessage(message)
    \/ TrafficSavingTask
    \/ Stored
    \/ Publish("", "on", "vid")
    \/ \E data \in {"on", NotSerializable} : Publish("rt/utlidar/switch", data, "msg")
    \/ DisconnectCalled
    \/ \E pc \in Outcomes, dc \in Outcomes, http \in Outcomes, clears \in BOOLEAN :
          DisconnectResumed(pc, dc, http, clears)

\* One session from its construction on, the relay endpoints and the decoder at rest.
SpecSession == Init /\ [][SessionNext]_sessionVars

\* The session with a client attached: messages arrive on both data channels while
\* the channels open and close and the session is stored and disconnected (what the
\* closes of disconnect() do is SpecSession's matter: here they return).
RelayNext ==
    \/ DataChannelOpen
    \/ DataChannelClosed
    \/ \E message \in RobotMessages : RobotMessage(message)
    \/ TrafficSavingTask
    \/ Stored
    \/ ClientDatachannel
    \/ ClientDatachannelClosed
    \/ ClientDatachannelCleared
    \/ \E message \in ClientMessages : ClientMessage(message)
    \/ DisconnectCalled
    \/ \E clears \in BOOLEAN : DisconnectResumed("returned", "returned", "returned", clears)

SpecRelay == Init /\ [][RelayNext]_sessionVars


\* ------------------------------------------------------------- helpers
Min(S) == CHOOSE x \in S : \A y \in S : x <= y

\* The next Go2Connection() / RTCPeerConnection() object: one not constructed yet.
FreshGo2 == IF \E g \in Go2Ids : conn[g] = "none"
            THEN Min({g \in Go2Ids : conn[g] = "none"}) ELSE None
FreshPc(ps) == IF \E p \in PcIds : ps[p] = "none"
               THEN Min({p \in PcIds : ps[p] = "none"}) ELSE None

\* A request is served on the lowest free slot (the slots are interchangeable).
Accepts(r) == rpc[r] = "idle" /\ \A q \in ReqIds : q < r => rpc[q] # "idle"

\* webrtc_relay.py exception handlers: the HTTP status of each way a handler ends.
StatusOf(kind) ==
    CASE kind = "ok" -> 200
      [] kind \in {"StateException", "StateException_SDP"} -> 409
      [] kind = "HTTPException502" -> 502
      [] OTHER -> 500

\* RTCPeerConnection.close() is entered: the connection leaves the open state.
PcCloseCalled_Skipped(ps, p) == ps
PcCloseCalled(ps, p) == IF ps[p] = "open" THEN [ps EXCEPT ![p] = "closing"] ELSE ps

\* RTCPeerConnection.close() has run, to its end or to the exception it raised: either
\* way the connection it was entered on is closed (close() marks it closed on entry).
PcCloseDone(ps, p) == IF ps[p] = "closing" THEN [ps EXCEPT ![p] = "closed"] ELSE ps

\* Go2Connection.disconnect() is entered on session g.
Go2DisconnectCalled(cs, g) == IF cs[g] = "connected" THEN [cs EXCEPT ![g] = "closing"] ELSE cs

\* connect, line 93: "if state.go2 is not None: raise StateException".
AlreadyConnected_Never(g) == FALSE
AlreadyConnected(g) == g # None

\* offer, line 54: "if state.go2 is None: raise StateException".
NoRobotSession_Never(g) == FALSE
NoRobotSession(g) == g = None

\* The handler is entered on a free slot.
Enter(r) ==
    /\ Accepts(r)
    /\ started < MaxStarts
    /\ started' = started + 1

\* offer, lines 82-86, run when the negotiation has succeeded: "if state.go2:
\* state.go2.publish("", "on", "vid")".  No other way a handler ends publishes it.
VidOnPublishes(op, kind) == IF op = "offer" /\ kind = "ok" /\ go2 # None THEN 1 ELSE 0

\* The handler is left, by return ("ok") or by the exception named; the response is
\* sent and the slot is free again.
Finish(r, op, kind) ==
    /\ last' = [op |-> op, res |-> kind]
    /\ vid' = VidOnPublishes(op, kind)
    /\ rop' = [rop EXCEPT ![r] = "idle"]
    /\ rpc' = [rpc EXCEPT ![r] = "idle"]
    /\ robj' = [robj EXCEPT ![r] = None]
    /\ snap' = [snap EXCEPT ![r] = NoSnap]
    /\ UNCHANGED <<validated_go2, subscribed_on>>
    /\ UNCHANGED <<decoderVars, sessionVars, errorVars, trackVars, extraVars>>

\* The handler awaits at suspension point `at`, its local variable holding obj.
Suspend(r, op, at, obj) ==
    /\ rop' = [rop EXCEPT ![r] = op]
    /\ rpc' = [rpc EXCEPT ![r] = at]
    /\ robj' = [robj EXCEPT ![r] = obj]
    /\ UNCHANGED <<last, vid>>
    /\ UNCHANGED <<validated_go2, subscribed_on>>
    /\ UNCHANGED <<decoderVars, sessionVars, errorVars, trackVars, extraVars>>

\* ------------------------------------------------- POST /go2/connect
\* connect, lines 93-108: the state check, Go2Connection(...), await go2.connect().
ConnectStart(r) ==
    /\ Enter(r)
    /\ IF AlreadyConnected(go2)
       THEN /\ Finish(r, "connect", "StateException")
            /\ UNCHANGED conn
       ELSE /\ conn' = [conn EXCEPT ![FreshGo2] = "connecting"]
            /\ Suspend(r, "connect", "await_connect", FreshGo2)
            /\ snap' = [snap EXCEPT ![r] = Snapshot]
    /\ UNCHANGED <<go2, relay_pc, relay_dc, go2_video_track, pcState>>

\* connect, lines 112-113: go2.connect() returned; the session is stored.
ConnectReturns(r) ==
    /\ rop[r] = "connect" /\ rpc[r] = "await_connect"
    /\ conn' = [conn EXCEPT ![robj[r]] = "connected"]
    /\ go2' = robj[r]
    /\ Finish(r, "connect", "ok")
    /\ UNCHANGED <<relay_pc, relay_dc, go2_video_track, pcState, started>>

\* connect, lines 109-110: go2.connect() raised; HTTPException(502), nothing stored,
\* the Go2Connection is dropped without disconnect().
ConnectRaises(r) ==
    /\ rop[r] = "connect" /\ rpc[r] = "await_connect"
    /\ conn' = [conn EXCEPT ![robj[r]] = "failed"]
    /\ Finish(r, "connect", "HTTPException502")
    /\ UNCHANGED <<go2, relay_pc, relay_dc, go2_video_track, pcState, started>>

\* Go2Connection.on_track -> on_video_frame -> _on_go2_video_track (lines 66-75):
\* the robot's video track arrives.  The peer connection emits "track" as the last
\* thing setRemoteDescription does, the final await of Go2Connection.connect
\* (go2_connection.py line 345), and on_track is a coroutine the event loop runs
\* afterwards: the track arrives on a session whose connect() has returned.  The
\* handler writes the shared state whether or not that session is the stored one.
Go2Track(g) ==
    /\ conn[g] = "connected"
    /\ go2_video_track # g
    /\ go2_video_track' = g
    /\ UNCHANGED <<go2, relay_pc, relay_dc, conn, pcState, rop, rpc, robj, snap, started, last, vid>>
    /\ UNCHANGED <<validated_go2, subscribed_on>>
    /\ UNCHANGED <<decoderVars, sessionVars, errorVars, trackVars, extraVars>>

\* Go2Connection.validate_robot_conn -> on_validated -> _on_go2_validated (lines
\* 51-63): the robot accepted session g.  The callback is a closure over the shared
\* state, not over the session that was validated: the traffic-saving task, the
\* subscribe messages and the lidar switch all go to state.go2, whichever session
\* that is at the time, and nothing is sent when it is None.
Go2Validated(g) ==
    /\ conn[g] = "connected"
    /\ g \notin validated_go2
    /\ validated_go2' = validated_go2 \cup {g}
    /\ subscribed_on' = [subscribed_on EXCEPT ![g] = go2]
    /\ UNCHANGED <<go2, relay_pc, relay_dc, go2_video_track, conn, pcState, rop, rpc, robj,
                   snap, started, last, vid>>
    /\ UNCHANGED <<decoderVars, sessionVars, errorVars, trackVars, extraVars>>

\* ---------------------------------------------- POST /go2/disconnect
\* disconnect, lines 135-140, entered with the client side done: pcState, relay_pc
\* and relay_dc take the values given.
DisconnectGo2Part(r, ps, rp, rd) ==
    /\ pcState' = ps
    /\ relay_pc' = rp
    /\ relay_dc' = rd
    /\ IF go2 # None
       THEN /\ conn' = Go2DisconnectCalled(conn, go2)
            /\ Suspend(r, "disconnect", "await_go2_disconnect", go2)
            /\ UNCHANGED snap
       ELSE /\ Finish(r, "disconnect", "ok")
            /\ UNCHANGED conn
    /\ UNCHANGED <<go2, go2_video_track>>

\* disconnect, lines 129-130: await state.relay_rtc_peer_connection.close().
DisconnectStart(r) ==
    /\ Enter(r)
    /\ IF relay_pc # None
       THEN /\ pcState' = PcCloseCalled(pcState, relay_pc)
            /\ Suspend(r, "disconnect", "await_pc_close", relay_pc)
            /\ UNCHANGED <<go2, relay_pc, relay_dc, go2_video_track, conn, snap>>
       ELSE DisconnectGo2Part(r, pcState, relay_pc, relay_dc)

\* disconnect, lines 131-136: close() returned; both client references are cleared.
DisconnectPcCloseReturns(r) ==
    /\ rop[r] = "disconnect" /\ rpc[r] = "await_pc_close"
    /\ DisconnectGo2Part(r, PcCloseDone(pcState, robj[r]), None, None)
    /\ UNCHANGED started

\* disconnect, line 130: close() raised; nothing catches it, the handler is left.
DisconnectPcCloseRaises(r) ==
    /\ rop[r] = "disconnect" /\ rpc[r] = "await_pc_close"
    /\ pcState' = PcCloseDone(pcState, robj[r])
    /\ Finish(r, "disconnect", "Exception")
    /\ UNCHANGED <<go2, relay_pc, relay_dc, go2_video_track, conn, started>>

\* disconnect, lines 137-140: go2.disconnect() returned (it never raises, lines 357-375).
DisconnectGo2Returns(r) ==
    /\ rop[r] = "disconnect" /\ rpc[r] = "await_go2_disconnect"
    /\ conn' = [conn EXCEPT ![robj[r]] = "closed"]
    /\ go2' = None
    /\ go2_video_track' = None
    /\ Finish(r, "disconnect", "ok")
    /\ UNCHANGED <<relay_pc, relay_dc, pcState, started>>

\* ------------------------------------------------ POST /webrtc/offer
\* offer, lines 59-74: RTCPeerConnection(...) is created and stored, the datachannel
\* handler registered, the video track attached, and the handler suspends in the SDP
\* negotiation (setRemoteDescription, createAnswer, setLocalDescription: nothing of
\* the relay state is read or written between these three awaits).
OfferCreate(r, ps) ==
    /\ pcState' = [ps EXCEPT ![FreshPc(ps)] = "open"]
    /\ relay_pc' = FreshPc(ps)
    /\ Suspend(r, "offer", "await_negotiate", FreshPc(ps))

\* close_rtc_relay_connection, lines 30-37, reached with relay_rtc_peer_connection
\* None or just cleared: the stored data channel is closed in a thread (a suspension),
\* or there is none and offer goes on to create without suspending.  While it waits
\* the handler's slot keeps the peer connection it closed.
OfferDcPart(r, ps, prior) ==
    IF relay_dc # None
    THEN /\ pcState' = ps
         /\ relay_pc' = None
         /\ Suspend(r, "offer", "await_dc_close", prior)
         /\ UNCHANGED relay_dc
    ELSE /\ OfferCreate(r, ps)
         /\ UNCHANGED relay_dc

\* offer, lines 54-57, and close_rtc_relay_connection, lines 21-24.
OfferStart(r) ==
    /\ Enter(r)
    /\ IF NoRobotSession(go2)
       THEN /\ Finish(r, "offer", "StateException")
            /\ UNCHANGED <<relay_pc, relay_dc, pcState>>
       ELSE /\ snap' = [snap EXCEPT ![r] = Snapshot]
            /\ IF relay_pc # None
               THEN /\ pcState' = PcCloseCalled(pcState, relay_pc)
                    /\ Suspend(r, "offer", "await_pc_close", relay_pc)
                    /\ UNCHANGED <<relay_pc, relay_dc>>
               ELSE OfferDcPart(r, pcState, None)
    /\ UNCHANGED <<go2, go2_video_track, conn>>

\* close_rtc_relay_connection, lines 24-28: close() returned or raised (the exception
\* is caught and logged); finally the stored reference is cleared.
OfferPcCloseDone(r) ==
    /\ rop[r] = "offer" /\ rpc[r] = "await_pc_close"
    /\ OfferDcPart(r, PcCloseDone(pcState, robj[r]), robj[r])
    /\ UNCHANGED <<go2, go2_video_track, conn, snap, started>>

\* close_rtc_relay_connection, lines 33-37: the data channel close returned or raised;
\* finally the stored reference is cleared; then offer, lines 59-74.
OfferDcCloseDone(r) ==
    /\ rop[r] = "offer" /\ rpc[r] = "await_dc_close"
    /\ relay_dc' = None
    /\ OfferCreate(r, pcState)
    /\ UNCHANGED <<go2, go2_video_track, conn, snap, started>>

\* offer, lines 74-91: the negotiation succeeded; video is re-triggered on the robot
\* session and the answer returned.
OfferNegotiated(r) ==
    /\ rop[r] = "offer" /\ rpc[r] = "await_negotiate"
    /\ Finish(r, "offer", "ok")
    /\ UNCHANGED <<go2, relay_pc, relay_dc, go2_video_track, conn, pcState, started>>

\* offer, lines 93-95: anything raised after the state check becomes a StateException
\* ("Failed to create relay rtc ... (SDP)"); the new peer connection stays stored.
OfferNegotiationRaises(r) ==
    /\ rop[r] = "offer" /\ rpc[r] = "await_negotiate"
    /\ Finish(r, "offer", "StateException_SDP")
    /\ UNCHANGED <<go2, relay_pc, relay_dc, go2_video_track, conn, pcState, started>>

\* _on_datachannel, lines 40-45: the client opens a data channel on a peer connection
\* that offer created and that has not finished closing.
RelayDatachannel(p) ==
    /\ pcState[p] \in {"open", "closing"}
    /\ relay_dc # p
    /\ relay_dc' = p
    /\ UNCHANGED <<go2, relay_pc, go2_video_track, conn, pcState, rop, rpc, robj, snap, started, last, vid>>
    /\ UNCHANGED <<validated_go2, subscribed_on>>
    /\ UNCHANGED <<decoderVars, sessionVars, errorVars, trackVars, extraVars>>

\* ------------------------------------------------------ specifications
Resume(r) ==
    \/ ConnectReturns(r)
    \/ ConnectRaises(r)
    \/ DisconnectPcCloseReturns(r)
    \/ DisconnectPcCloseRaises(r)
    \/ DisconnectGo2Returns(r)
    \/ OfferPcCloseDone(r)
    \/ OfferDcCloseDone(r)
    \/ OfferNegotiated(r)
    \/ OfferNegotiationRaises(r)

Events ==
    \/ \E g \in Go2Ids : Go2Track(g)
    \/ \E g \in Go2Ids : Go2Validated(g)
    \/ \E p \in PcIds : RelayDatachannel(p)

\* Requests arrive at any time and interleave at their suspension points.
Next ==
    \/ \E r \in ReqIds : ConnectStart(r) \/ DisconnectStart(r) \/ OfferStart(r)
    \/ \E r \in ReqIds : Resume(r)
    \/ Events

Spec == Init /\ [][Next]_vars

\* One client that waits for each response before it sends the next request.
NoneInFlight == \A q \in ReqIds : rpc[q] = "idle"

NextSeq ==
    \/ \E r \in ReqIds : NoneInFlight /\ (ConnectStart(r) \/ DisconnectStart(r) \/ OfferStart(r))
    \/ \E r \in ReqIds : Resume(r)
    \/ Events

SpecSeq == Init /\ [][NextSeq]_vars

TypeOK ==
    /\ go2 \in Go2Ids \cup {None}
    /\ relay_pc \in PcIds \cup {None}
    /\ relay_dc \in PcIds \cup {None}
    /\ go2_video_track \in Go2Ids \cup {None}
    /\ conn \in [Go2Ids -> {"none", "connecting", "connected", "failed", "closing", "closed"}]
    /\ pcState \in [PcIds -> {"none", "open", "closing", "closed"}]
    /\ rop \in [ReqIds -> {"idle", "connect", "disconnect", "offer"}]
    /\ rpc \in [ReqIds -> {"idle", "await_connect", "await_pc_close", "await_dc_close",
                           "await_negotiate", "await_go2_disconnect"}]
    /\ robj \in [ReqIds -> 0..MaxStarts]
    /\ last \in [op : {"none", "connect", "disconnect", "offer"},
                res : {"none", "ok", "StateException", "StateException_SDP", "HTTPException502", "Exception"}]
    /\ started \in 0..MaxStarts
    /\ vid \in 0..1
    /\ validated_go2 \subseteq Go2Ids
    /\ subscribed_on \in [Go2Ids -> Go2Ids \cup {None}]

\* ------------------------------------------- Go2Connection.connect, the handshake
\* connect() (go2_connection.py lines 271-355) is straight-line code in one outer
\* try: each step returns, and the next one is attempted, or raises, and the
\* exception passes the except clauses around it.  The HTTP client and the crypto
\* helpers it calls are libraries: a call returns or raises as the environment
\* decides.
MaxConnects == 2        \* calls of connect() in one run

\* The steps in source order: createOffer and setLocalDescription (lines 275-285),
\* get_robot_public_key and the parsing of its response (288-304), the AES and RSA
\* encryption (311-319), send_encrypted_sdp (322-327), aes_decrypt and the parsing
\* of the answer (330-337), setRemoteDescription (339).
Steps == <<"offer", "public_key", "encrypt", "post", "decrypt", "set_remote">>

StepAt(step) == CHOOSE i \in 1..Len(Steps) : Steps[i] = step

\* What a step may raise: the peer connection any Exception; the HTTP client
\* WebRTCHttpError; the crypto helpers EncryptionError; the decoding of a response
\* (base64, json, a missing key) another Exception; a falsy response or one without
\* data1 the Go2ConnectionError that lines 291 and 300, and line 326, raise themselves.
Raisable(step) ==
    CASE step = "offer" -> {"Exception"}
      [] step = "public_key" -> {"Go2ConnectionError", "WebRTCHttpError", "EncryptionError", "Exception"}
      [] step = "encrypt" -> {"EncryptionError", "Exception"}
      [] step = "post" -> {"Go2ConnectionError", "WebRTCHttpError", "Exception"}
      [] step = "decrypt" -> {"EncryptionError", "Exception"}
      [] step = "set_remote" -> {"Exception"}

\* Lines 306-307 and 341-342: the inner try blocks, around every step but the
\* first, turn the two library errors into Go2ConnectionError.
InnerCaught == {"WebRTCHttpError", "EncryptionError"}

\* Lines 352-355: `except Go2ConnectionError: raise`, then `except Exception`.
OuterCaught_Listed == InnerCaught
OuterCaught == {"WebRTCHttpError", "EncryptionError", "Exception"}

\* The exception that leaves connect() when `step` raises `kind`.
Escaped(step, kind) ==
    LET inner == IF step # "offer" /\ kind \in InnerCaught THEN "Go2ConnectionError" ELSE kind
    IN  IF inner = "Go2ConnectionError" THEN inner
        ELSE IF inner \in OuterCaught THEN "Go2ConnectionError"
        ELSE inner

OtherThanConnect == <<vars, decoderVars, sessionVars, errorVars, trackVars, padVars, viewerVars, mockVars>>

\* connect() is called on a fresh Go2Connection.
ConnectCalled ==
    /\ cpos = "idle"
    /\ Len(connects) < MaxConnects
    /\ cpos' = Steps[1]
    /\ attempted' = <<>>
    /\ UNCHANGED connects
    /\ UNCHANGED OtherThanConnect

\* The step at hand returns; after the last one connect() returns None.
StepReturns ==
    /\ cpos # "idle"
    /\ attempted' = Append(attempted, cpos)
    /\ IF StepAt(cpos) < Len(Steps)
       THEN /\ cpos' = Steps[StepAt(cpos) + 1]
            /\ UNCHANGED connects
       ELSE /\ cpos' = "idle"
            /\ connects' = Append(connects, [attempted |-> attempted', failed |-> "none",
                                             raised |-> "none", escaped |-> "none"])
    /\ UNCHANGED OtherThanConnect

\* The step at hand raises: nothing after it runs, the exception leaves connect().
StepRaises(kind) ==
    /\ cpos # "idle"
    /\ kind \in Raisable(cpos)
    /\ attempted' = Append(attempted, cpos)
    /\ cpos' = "idle"
    /\ connects' = Append(connects, [attempted |-> attempted', failed |-> cpos,
                                     raised |-> kind, escaped |-> Escaped(cpos, kind)])
    /\ UNCHANGED OtherThanConnect

ConnectNext ==
    \/ ConnectCalled
    \/ StepReturns
    \/ \E kind \in {"Go2ConnectionError", "WebRTCHttpError", "EncryptionError", "Exception"} :
          StepRaises(kind)

SpecConnect == Init /\ [][ConnectNext]_connectVars

\* ------------------------------------- mock robot: PKCS#7 padding and AES-ECB
\* mock_go2_webrtc_server.py lines 40-66, pure functions over byte strings.  A byte
\* string is a sequence of numbers in 0..255.  The inputs are a run of one byte,
\* of every length up to two blocks, followed by a short tail of bytes chosen among
\* those that can be mistaken for padding.
BlockSize == 16
MaxFill == 32           \* length of the run the plain text starts with
MaxTail == 2            \* length of the tail the plain text ends with

ByteSample == {0, 1, 16, 255}
Keys == {1, 37}

Rep(b, n) == [i \in 1..n |-> b]

\* _pkcs7_pad, lines 40-42.
_pkcs7_pad_NoFullBlock(data, block_size) ==
    LET pad_len == (block_size - (Len(data) % block_size)) % block_size
    IN  data \o Rep(pad_len, pad_len)
_pkcs7_pad(data, block_size) ==
    LET pad_len == block_size - (Len(data) % block_size)
    IN  data \o Rep(pad_len, pad_len)

\* _pkcs7_unpad, lines 44-50: the result, or the ValueError raised.
_pkcs7_unpad(data) ==
    IF data = <<>> THEN [raised |-> "ValueError", value |-> <<>>]
    ELSE LET pad_len == data[Len(data)]
         IN  IF pad_len = 0 \/ pad_len > Len(data)
             THEN [raised |-> "ValueError", value |-> <<>>]
             ELSE [raised |-> "none", value |-> SubSeq(data, 1, Len(data) - pad_len)]

\* AES.new(key, AES.MODE_ECB).encrypt / .decrypt (PyCryptodome): a keyed bijection
\* on blocks, applied block by block, that refuses data not aligned to the block
\* size.  The model shifts every byte by the key.
Aligned(data) == Len(data) % BlockSize = 0
ecb_encrypt(k, data) == [i \in 1..Len(data) |-> (data[i] + k) % 256]
ecb_decrypt(k, data) == [i \in 1..Len(data) |-> (data[i] + 256 - k) % 256]

\* base64.b64encode / b64decode: the text form of a byte string, and back.  The
\* model writes two 4-bit digits per byte where base64 writes four 6-bit digits per
\* three bytes.
b64encode(data) == [i \in 1..(2 * Len(data)) |->
                       IF i % 2 = 1 THEN data[(i + 1) \div 2] \div 16 ELSE data[i \div 2] % 16]
b64decode(text) == [i \in 1..(Len(text) \div 2) |-> 16 * text[2 * i - 1] + text[2 * i]]

\* aes_ecb_encrypt_base64_str, lines 52-58.
aes_ecb_encrypt_base64_str(plain_text, key_str) ==
    LET padded == _pkcs7_pad(plain_text, 16)
    IN  IF Aligned(padded)
        THEN [raised |-> "none", value |-> b64encode(ecb_encrypt(key_str, padded))]
        ELSE [raised |-> "ValueError", value |-> <<>>]

\* aes_ecb_decrypt_base64_str, lines 60-66.
aes_ecb_decrypt_base64_str(enc_b64_str, key_str) ==
    LET enc == b64decode(enc_b64_str)
    IN  IF Aligned(enc) THEN _pkcs7_unpad(ecb_decrypt(key_str, enc))
        ELSE [raised |-> "ValueError", value |-> <<>>]

Tails == UNION {[1..n -> ByteSample] : n \in 0..MaxTail}

OtherThanPad == <<vars, decoderVars, sessionVars, errorVars, trackVars, connectVars, viewerVars, mockVars>>

PadInit ==
    /\ RelayIdle
    /\ MockIdle
    /\ ViewerIdle
    /\ DecoderIdle
    /\ SessionCreated
    /\ ErrorsIdle
    /\ TracksIdle
    /\ ConnectIdle
    /\ \E n \in 0..MaxFill, b \in ByteSample, tail \in Tails : plain = Rep(b, n) \o tail
    /\ aes_key \in Keys
    /\ enc_b64 = [called |-> FALSE, raised |-> "none", value |-> <<>>]
    /\ decrypted = [called |-> FALSE, raised |-> "none", value |-> <<>>]

\* The plain text is encrypted.
Encrypt ==
    /\ ~enc_b64.called
    /\ LET r == aes_ecb_encrypt_base64_str(plain, aes_key)
       IN  enc_b64' = [called |-> TRUE, raised |-> r.raised, value |-> r.value]
    /\ UNCHANGED <<plain, aes_key, decrypted>>
    /\ UNCHANGED OtherThanPad

\* What was returned is decrypted with the same key.
Decrypt ==
    /\ enc_b64.called /\ enc_b64.raised = "none"
    /\ ~decrypted.called
    /\ LET r == aes_ecb_decrypt_base64_str(enc_b64.value, aes_key)
       IN  decrypted' = [called |-> TRUE, raised |-> r.raised, value |-> r.value]
    /\ UNCHANGED <<plain, aes_key, enc_b64>>
    /\ UNCHANGED OtherThanPad

PadNext == Encrypt \/ Decrypt

SpecPad == PadInit /\ [][PadNext]_padVars

\* --------------------------------------------- VoxelMapViewer, the frame queue
\* voxel_map_viewer.py: one thread calls submit_u8, the viewer thread runs _run.
\* queue.Queue takes its mutex for every operation, so the threads interleave
\* between queue operations: one action is one queue operation and the code of
\* its thread up to the next one.
MaxFrames == 4          \* calls of submit_u8 in one run

\* __init__, line 58: queue.Queue(maxsize=1).
QueueSize == 1

\* submit_u8, line 91: `while not self._q.empty()` sends the thread to get_nowait
\* or past the loop.
AfterEmptyCheck_NoDrain(queue) == "put"
AfterEmptyCheck(queue) == IF queue = <<>> THEN "put" ELSE "get_nowait"

OtherThanViewer == <<vars, decoderVars, sessionVars, errorVars, trackVars, connectVars, padVars, mockVars>>

\* submit_u8 is entered, line 90.
SubmitCalled ==
    /\ ppc = "idle"
    /\ submitted < MaxFrames
    /\ ppc' = "empty"
    /\ UNCHANGED <<frame_q, submitted, received, dropped, stopped>>
    /\ UNCHANGED OtherThanViewer

\* Line 91: self._q.empty().
SubmitChecksEmpty ==
    /\ ppc = "empty"
    /\ ppc' = AfterEmptyCheck(frame_q)
    /\ UNCHANGED <<frame_q, submitted, received, dropped, stopped>>
    /\ UNCHANGED OtherThanViewer

\* Lines 92-94: get_nowait() discards the oldest frame and the loop goes on, or
\* raises queue.Empty, the viewer having taken the frame meanwhile, and the except
\* outside the loop ends the draining.
SubmitGetNowait ==
    /\ ppc = "get_nowait"
    /\ IF frame_q # <<>>
       THEN /\ frame_q' = Tail(frame_q)
            /\ dropped' = dropped \cup {Head(frame_q)}
            /\ ppc' = "empty"
       ELSE /\ ppc' = "put"
            /\ UNCHANGED <<frame_q, dropped>>
    /\ UNCHANGED <<submitted, received, stopped>>
    /\ UNCHANGED OtherThanViewer

\* Lines 95-96: self._q.put(...) without a timeout: it waits while the queue is
\* full, then appends the frame, and submit_u8 returns.
SubmitPut ==
    /\ ppc = "put"
    /\ Len(frame_q) < QueueSize
    /\ frame_q' = Append(frame_q, submitted + 1)
    /\ submitted' = submitted + 1
    /\ ppc' = "idle"
    /\ UNCHANGED <<received, dropped, stopped>>
    /\ UNCHANGED OtherThanViewer

\* _run, lines 149-156: self._q.get(timeout=0.01) returns the oldest frame; when
\* the queue stays empty it raises queue.Empty and the loop goes round.
ViewerGet ==
    /\ ~stopped
    /\ frame_q # <<>>
    /\ frame_q' = Tail(frame_q)
    /\ received' = Append(received, Head(frame_q))
    /\ UNCHANGED <<ppc, submitted, dropped, stopped>>
    /\ UNCHANGED OtherThanViewer

\* close(), lines 76-78, and the loop condition at line 149: the viewer thread
\* takes no more frames.
ViewerStops ==
    /\ ~stopped
    /\ stopped' = TRUE
    /\ UNCHANGED <<frame_q, ppc, submitted, received, dropped>>
    /\ UNCHANGED OtherThanViewer

ViewerNext ==
    \/ SubmitCalled
    \/ SubmitChecksEmpty
    \/ SubmitGetNowait
    \/ SubmitPut
    \/ ViewerGet
    \/ ViewerStops

SpecViewer == Init /\ [][ViewerNext]_viewerVars

\* ------------------------------------------------ the mock robot (MockGo2EncryptedServer)
\* mock_go2_webrtc_server.py: the per-connection dictionaries of the server, the
\* handlers on_datachannel and on_message, the publisher task and _cleanup_pc.  The
\* handlers are synchronous, one action each; _cleanup_pc is a coroutine with three
\* awaits, one action between two of them.
MaxMockIn == 3          \* messages the mock robot handles in one run
MaxMockSent == 3        \* messages the mock robot sends on one connection

\* The connections the mock robot accepts.
MockPcs == {1, 2}
Nonces == {"k1", "k2"}

\* _ValidationCryptoServer, lines 21-38; the digest and the encoding are written as
\* terms over their input, as for the client.
_md5_hex(str) == "md5(" \o str \o ")"
_hex_to_base64(hex_str) == "base64(" \o hex_str \o ")"
_encrypt_key(key) == _hex_to_base64(_md5_hex("UnitreeGo2_" \o key))

\* TOPICS, lines 133-138; the lidar topic has no maker that is sent (lines 377-379).
LidarTopic == "rt/utlidar/voxel_map_compressed"
TOPICS == {"rt/lf/lowstate", LidarTopic}
SubscribeTo(topic) == Text(<<<<"type", "subscribe">>, <<"topic", topic>>>>)

\* on_datachannel line 272, on_message lines 303 and 318, _pub line 381.
NonceMessage(validation_key) == Text(<<<<"type", "validation">>, <<"data", validation_key>>>>)
TelemetryOf(topic) == Text(<<<<"type", "msg">>, <<"topic", topic>>, <<"data", "maker()">>>>)

\* A channel of the connection takes and delivers messages: from on_datachannel until
\* pc.close() has ended.
MockChannelUp(pc) ==
    mock_pc[pc] \in {"connected", "cleanup_task", "cleanup_task_done", "cleanup_blackhole", "cleanup_close"}

\* _cleanup_pc lines 407-409 have popped the connection's entries.
Popped(pc) == mock_pc[pc] \in {"cleanup_close", "closed"}

\* channel.send inside try/except (lines 271-275, 302-305, 317-321, 382-385).
MockSend(pc, out, m) == IF MockChannelUp(pc) THEN Append(out, m) ELSE out

\* payload.get(key, default), lines 287-289.
GetOr(obj, k, default) == IF k \in obj.keys THEN Get(obj, k) ELSE default

\* _start_publisher, lines 361-363: a task is created unless the dict holds one
\* that is not done.
StartsTask(task) == task # "running"

\* on_message, lines 295-297: the response is the hash of the pending nonce.
Matches_Echo(pending, data_str) == pending # "" /\ data_str = pending
Matches(pending, data_str) == pending # "" /\ data_str = _encrypt_key(pending)

OtherThanMock == <<vars, decoderVars, sessionVars, errorVars, trackVars, connectVars, padVars, viewerVars>>

\* on_con_ing lines 254-259 and on_datachannel lines 263-275: the connection is
\* made, its data channel arrives, a nonce is drawn, stored and sent.
MockDatachannel(pc, validation_key) ==
    /\ mock_pc[pc] = "none"
    /\ mock_pc' = [mock_pc EXCEPT ![pc] = "connected"]
    /\ _pending_validation' = [_pending_validation EXCEPT ![pc] = validation_key]
    /\ mock_sent' = [mock_sent EXCEPT ![pc] = Append(@, NonceMessage(validation_key))]
    /\ UNCHANGED <<_validated, _subscriptions, _pub_tasks, live_tasks, mock_in, mock_read>>
    /\ UNCHANGED OtherThanMock

\* on_message, lines 278-333, with _start_publisher, lines 361-389.  new_key is the
\* nonce drawn when none is pending.
MockOnMessage(pc, message, new_key) ==
    /\ MockChannelUp(pc)
    /\ mock_in' = [mock_in EXCEPT ![pc] = Append(@, [m |-> message, pending |-> _pending_validation[pc]])]
    /\ LET payload == parse_datachannel_message(message)
           ignored == message.kind = "bytes" \/ payload.raised
           mtype == GetOr(payload, "type", "")
           topic == GetOr(payload, "topic", "")
           data_str == GetOr(payload, "data", "")
           pending == _pending_validation[pc]
       IN  IF ~ignored /\ mtype = "validation" /\ Matches(pending, data_str)
           THEN /\ _validated' = [_validated EXCEPT ![pc] = TRUE]
                /\ mock_sent' = [mock_sent EXCEPT ![pc] = MockSend(pc, @, ValidationOk)]
                /\ IF StartsTask(_pub_tasks[pc])
                   THEN /\ _pub_tasks' = [_pub_tasks EXCEPT ![pc] = "running"]
                        /\ live_tasks' = [live_tasks EXCEPT ![pc] = @ + 1]
                   ELSE UNCHANGED <<_pub_tasks, live_tasks>>
                /\ UNCHANGED <<_pending_validation, _subscriptions>>
           ELSE IF ~ignored /\ mtype = "validation" /\ pending = ""
           THEN /\ _pending_validation' = [_pending_validation EXCEPT ![pc] = new_key]
                /\ mock_sent' = [mock_sent EXCEPT ![pc] = MockSend(pc, @, NonceMessage(new_key))]
                /\ UNCHANGED <<_validated, _subscriptions, _pub_tasks, live_tasks>>
           ELSE IF ~ignored /\ mtype = "subscribe" /\ topic \in TOPICS /\ ~Popped(pc)
           THEN /\ _subscriptions' = [_subscriptions EXCEPT ![pc] = @ \cup {topic}]
                /\ UNCHANGED <<_pending_validation, _validated, _pub_tasks, live_tasks, mock_sent>>
           ELSE UNCHANGED <<_pending_validation, _validated, _subscriptions, _pub_tasks,
                            live_tasks, mock_sent>>
    /\ UNCHANGED mock_pc
    /\ UNCHANGED OtherThanMock

\* _pub, lines 367-385: one round of a publisher task after its sleep.  The round
\* sends nothing unless the connection is connected and validated; then one message
\* per subscribed topic but the lidar topic.
MockPublishes(pc) ==
    /\ live_tasks[pc] > 0
    /\ mock_pc[pc] \in {"connected", "cleanup_task_done", "cleanup_blackhole", "cleanup_close"}
    /\ _validated[pc]
    /\ _subscriptions[pc] \ {LidarTopic} # {}
    /\ Len(mock_sent[pc]) < MaxMockSent
    /\ \E topic \in _subscriptions[pc] \ {LidarTopic} :
          mock_sent' = [mock_sent EXCEPT ![pc] = Append(@, TelemetryOf(topic))]
    /\ UNCHANGED <<mock_pc, _pending_validation, _validated, _subscriptions, _pub_tasks,
                   live_tasks, mock_in, mock_read>>
    /\ UNCHANGED OtherThanMock

\* stop() -> _cleanup_pc, lines 392-395: the task the dict holds is cancelled and
\* awaited; without one the coroutine goes on to line 400.
MockCleanupStarts(pc) ==
    /\ mock_pc[pc] = "connected"
    /\ mock_pc' = [mock_pc EXCEPT ![pc] = IF _pub_tasks[pc] = "none" THEN "cleanup_blackhole"
                                          ELSE "cleanup_task"]
    /\ UNCHANGED <<_pending_validation, _validated, _subscriptions, _pub_tasks, live_tasks,
                   mock_in, mock_sent, mock_read>>
    /\ UNCHANGED OtherThanMock

\* _pub, lines 386-387: the cancelled task wakes from its sleep and ends.
MockTaskEnds(pc) ==
    /\ mock_pc[pc] = "cleanup_task"
    /\ mock_pc' = [mock_pc EXCEPT ![pc] = "cleanup_task_done"]
    /\ _pub_tasks' = [_pub_tasks EXCEPT ![pc] = "done"]
    /\ live_tasks' = [live_tasks EXCEPT ![pc] = @ - 1]
    /\ UNCHANGED <<_pending_validation, _validated, _subscriptions, mock_in, mock_sent, mock_read>>
    /\ UNCHANGED OtherThanMock

\* _cleanup_pc, lines 398-402: resumed, it pops whatever the dict holds for the
\* connection and awaits the blackhole's stop().
MockCleanupAfterTask(pc) ==
    /\ mock_pc[pc] = "cleanup_task_done"
    /\ mock_pc' = [mock_pc EXCEPT ![pc] = "cleanup_blackhole"]
    /\ _pub_tasks' = [_pub_tasks EXCEPT ![pc] = "none"]
    /\ UNCHANGED <<_pending_validation, _validated, _subscriptions, live_tasks, mock_in,
                   mock_sent, mock_read>>
    /\ UNCHANGED OtherThanMock

\* _cleanup_pc, lines 405-412: the entries of the connection are popped and
\* pc.close() is awaited.
MockCleanupAfterBlackhole(pc) ==
    /\ mock_pc[pc] = "cleanup_blackhole"
    /\ mock_pc' = [mock_pc EXCEPT ![pc] = "cleanup_close"]
    /\ _validated' = [_validated EXCEPT ![pc] = FALSE]
    /\ _pending_validation' = [_pending_validation EXCEPT ![pc] = ""]
    /\ _subscriptions' = [_subscriptions EXCEPT ![pc] = {}]
    /\ UNCHANGED <<_pub_tasks, live_tasks, mock_in, mock_sent, mock_read>>
    /\ UNCHANGED OtherThanMock

\* _cleanup_pc, lines 412-414: pc.close() has ended.
MockCleanupEnds(pc) ==
    /\ mock_pc[pc] = "cleanup_close"
    /\ mock_pc' = [mock_pc EXCEPT ![pc] = "closed"]
    /\ UNCHANGED <<_pending_validation, _validated, _subscriptions, _pub_tasks, live_tasks,
                   mock_in, mock_sent, mock_read>>
    /\ UNCHANGED OtherThanMock

\* What a client may send to a connection with `pending` outstanding: the hash of
\* the nonce, the nonce itself, subscriptions, and text that is not JSON.
MockMessages(pending) ==
    {ValidationResponse(pending), ValidationResponse_Echo(pending),
     SubscribeTo("rt/lf/lowstate"), SubscribeTo(LidarTopic), SubscribeTo("rt/unknown"), NotJson}

MockHandled == Len(mock_in[1]) + Len(mock_in[2])

\* The mock robot with any client on each connection.
MockNext ==
    \/ \E pc \in MockPcs, validation_key \in Nonces : MockDatachannel(pc, validation_key)
    \/ \E pc \in MockPcs, new_key \in Nonces :
          \E message \in MockMessages(_pending_validation[pc]) :
              /\ MockHandled < MaxMockIn
              /\ MockOnMessage(pc, message, new_key)
              /\ UNCHANGED mock_read
    \/ \E pc \in MockPcs : MockPublishes(pc)
    \/ \E pc \in MockPcs : MockCleanupStarts(pc)
    \/ \E pc \in MockPcs : MockTaskEnds(pc)
    \/ \E pc \in MockPcs : MockCleanupAfterTask(pc)
    \/ \E pc \in MockPcs : MockCleanupAfterBlackhole(pc)
    \/ \E pc \in MockPcs : MockCleanupEnds(pc)

SpecMock == Init /\ [][MockNext]_mockVars

\* --------------------------------------- one session and the mock robot, connected
\* The Go2Connection of the session model on one end of a data channel and
\* connection 1 of the mock robot on the other.  The channel is reliable and
\* ordered: what one end sent reaches the other end's handler once, in the order
\* sent, and nothing else does.  The relay may publish "vid on" on the session at
\* any time, as the offer endpoint does.  robot_out is what the session sent and mock_read
\* how much of it the mock robot has handled; mock_sent[1] is what the mock robot
\* sent and robot_in how much of it the session has handled.
handshakeVars == <<sessionVars, mockVars>>

\* on_data_channel_message is called with the next message the mock robot sent.
SessionReceives ==
    /\ Len(robot_in) < Len(mock_sent[1])
    /\ RobotMessage(mock_sent[1][Len(robot_in) + 1])

\* The mock robot's on_message is called with the next message the session sent.
MockReceives ==
    /\ mock_read < Len(robot_out)
    /\ \E new_key \in Nonces : MockOnMessage(1, robot_out[mock_read + 1].m, new_key)
    /\ mock_read' = mock_read + 1

HandshakeNext ==
    \/ \E validation_key \in Nonces : MockDatachannel(1, validation_key)
    \/ SessionReceives
    \/ MockReceives
    \/ MockPublishes(1)
    \/ DataChannelOpen
    \/ Stored
    \/ TrafficSavingTask
    \/ Publish("", "on", "vid")

SpecHandshake == Init /\ [][HandshakeNext]_handshakeVars

\* Both event loops keep running their handlers: a data channel that is negotiated
\* is announced to the mock robot, and a message that was sent is handled.
HandshakeFairness ==
    /\ WF_handshakeVars(\E validation_key \in Nonces : MockDatachannel(1, validation_key))
    /\ WF_handshakeVars(SessionReceives)
    /\ WF_handshakeVars(MockReceives)

SpecHandshakeFair == SpecHandshake /\ HandshakeFairness

\* ------------------------------------------------------------ properties
\* The relay state a request found when its handler was entered.
SnapState(r) == <<snap[r].go2, snap[r].pc, snap[r].dc, snap[r].track>>

\* C1: a connect request that finds a robot session stored fails with StateException
\* (HTTP 409), constructs no Go2Connection and changes nothing of the relay state.
C1_ConnectWhileConnected ==
    [][\A r \in ReqIds : (ConnectStart(r) /\ go2 # None) =>
          /\ last' = [op |-> "connect", res |-> "StateException"]
          /\ StatusOf(last'.res) = 409
          /\ conn' = conn
          /\ relayState' = relayState
          /\ rpc'[r] = "idle"]_vars

\* A connect request was rejected while a connected session was stored.
C1_Witness ==
    /\ last = [op |-> "connect", res |-> "StateException"]
    /\ go2 # None
    /\ conn[go2] = "connected"

\* C2: every Go2Connection that is connected and not disconnected is the one stored
\* in state.go2, so there is at most one of them and none was overwritten.
C2_SingleRobotSession ==
    /\ \A g \in Go2Ids : conn[g] = "connected" => go2 = g
    /\ Cardinality({g \in Go2Ids : conn[g] = "connected"}) <= 1

\* C3: an offer request that finds no robot session stored fails with StateException
\* (HTTP 409); no peer connection is closed or created and the relay state is unchanged.
C3_OfferWithoutRobot ==
    [][\A r \in ReqIds : (OfferStart(r) /\ go2 = None) =>
          /\ last' = [op |-> "offer", res |-> "StateException"]
          /\ StatusOf(last'.res) = 409
          /\ pcState' = pcState
          /\ relayState' = relayState
          /\ rpc'[r] = "idle"]_vars

\* An offer request was rejected with no robot session stored.
C3_Witness ==
    /\ last = [op |-> "offer", res |-> "StateException"]
    /\ go2 = None

\* The step in which offer request r creates its RTCPeerConnection.
OfferCreates(r) == rop'[r] = "offer" /\ rpc'[r] = "await_negotiate" /\ rpc[r] # "await_negotiate"

\* C4: when an offer request found a client-facing peer connection stored, then at the
\* step that creates the new RTCPeerConnection close() has been called on the prior
\* one, the new one is an object that did not exist before (the prior one is not
\* reused), and no reference to the prior one or a data channel is stored any more.
C4_PriorClosedBeforeCreate ==
    [][\A r \in ReqIds : (OfferCreates(r) /\ snap'[r].pc # None) =>
          /\ pcState[snap'[r].pc] \in {"closing", "closed"}
          /\ pcState[relay_pc'] = "none"
          /\ pcState'[relay_pc'] = "open"
          /\ relay_pc' # snap'[r].pc
          /\ relay_dc' = None]_vars

\* An offer that found a peer connection and its data channel stored has created and
\* stored a new peer connection; the prior one is closed.
C4_Witness ==
    \E r \in ReqIds :
        /\ rop[r] = "offer" /\ rpc[r] = "await_negotiate"
        /\ snap[r].pc # None
        /\ snap[r].dc = snap[r].pc
        /\ pcState[snap[r].pc] = "closed"
        /\ relay_pc = robj[r]
        /\ relay_pc # snap[r].pc
        /\ pcState[relay_pc] = "open"
        /\ relay_dc = None

\* C5: with offer requests overlapping (no disconnect has been called on a robot
\* session), every peer connection offer created and nobody closed is the stored one.
C5_NoOrphanPeerConnection ==
    (\A g \in Go2Ids : conn[g] \notin {"closing", "closed"}) =>
        \A p \in PcIds : pcState[p] = "open" => relay_pc = p

\* C6: when Go2Connection.connect() raises in the connect endpoint, the request ends
\* with HTTP 502, state.go2 is None and the relay state is what the request found.
C6_FailedConnectLeavesState ==
    [][\A r \in ReqIds : ConnectRaises(r) =>
          /\ StatusOf(last'.res) = 502
          /\ go2' = None
          /\ relayState' = SnapState(r)]_vars

\* C7: when offer fails after its state check, the peer connection it found stored is
\* closed, state.go2 holds the robot session it found and that session is connected.
C7_FailedOfferKeepsRobot ==
    [][\A r \in ReqIds : OfferNegotiationRaises(r) =>
          /\ snap[r].pc # None => pcState'[snap[r].pc] = "closed"
          /\ go2' = snap[r].go2
          /\ conn'[snap[r].go2] = "connected"]_vars

\* C8: at the step in which the disconnect endpoint calls disconnect() on the robot
\* session, no client-facing peer connection is open.
C8_ClientClosedBeforeRobot ==
    [][\A r \in ReqIds :
          (rop'[r] = "disconnect" /\ rpc'[r] = "await_go2_disconnect"
                                  /\ rpc[r] # "await_go2_disconnect") =>
              \A p \in PcIds : pcState'[p] # "open"]_vars

\* C9: when closing the client-facing peer connection raises in the disconnect
\* endpoint, the endpoint still goes on to disconnect the robot session and does not
\* end with the exception.
C9_TeardownsIndependent ==
    [][\A r \in ReqIds : (DisconnectPcCloseRaises(r) /\ go2 # None) =>
          /\ conn'[go2] \in {"closing", "closed"}
          /\ rpc'[r] = "await_go2_disconnect"
          /\ last' = last]_vars

\* The step in which disconnect request r ends.
DisconnectEnds(r) ==
    \/ rop[r] = "disconnect" /\ rop'[r] = "idle"
    \/ DisconnectStart(r) /\ rop'[r] = "idle"

\* C10: a disconnect request ends by returning, never by an exception, and when it
\* ends the four fields of the relay state are None.
C10_DisconnectTotal ==
    [][\A r \in ReqIds : DisconnectEnds(r) =>
          /\ last' = [op |-> "disconnect", res |-> "ok"]
          /\ go2' = None
          /\ go2_video_track' = None
          /\ relay_pc' = None
          /\ relay_dc' = None]_vars

\* A message has been decoded as a data message of the topic.
Decoded(topic) == envelope.ret # "pending" /\ msg.type = "msg" /\ msg.topic = topic

\* The payloads populated in the envelope.
Populated ==
    {p \in {"lidar_data", "odometry_data", "robot_state", "imu_data", "joint_data"} :
        envelope[p].some}

\* Some element of the value is NaN or an infinity.
HasNonFinite(d) == \E i \in 1..Len(d.v) : d.v[i] \in NonFinite

\* C18: an odometry or sport-mode-state message with NaN or an infinity in one of its
\* numeric fields (the pose scalars; body_height and the numeric lists of the robot
\* state; the numeric lists of the IMU state) is decoded to no record.
C18_NonFiniteRejected ==
    \A topic \in {"ROBOTODOM", "LF_SPORT_MOD_STATE"} :
        (/\ Decoded(topic)
         /\ \E f \in OdomFields \cup StateListFields \cup ImuListFields \cup {"body_height"} :
                HasNonFinite(msg.data[f]))
            => Populated = {}

\* Equal as numbers: 1 and 1.0 are.
NumEq(a, b) == a = b \/ (a.k = "scalar" /\ b.k = "scalar" /\ ToFloat(a.v[1]) = ToFloat(b.v[1]))

\* A list of finite numbers; a finite number.
FiniteList(d) == d.k = "list" /\ \A i \in 1..Len(d.v) : d.v[i] \in IntScalars \cup FloatScalars
FiniteScalar(d) == d.k = "scalar" /\ d.v[1] \in IntScalars \cup FloatScalars

\* Every field of both halves is there and every validated field is finite.
SportValid ==
    /\ \A f \in SportFields : msg.data[f] # Absent
    /\ \A f \in {"position", "range_obstacle", "foot_position_body", "foot_speed_body",
                 "imu_state.quaternion", "imu_state.accelerometer", "imu_state.gyroscope",
                 "imu_state.rpy"} : FiniteList(msg.data[f])
    /\ FiniteScalar(msg.data["body_height"])

\* C19: a decoded sport-mode-state message gives a RobotState and an IMUData whose
\* fields equal the input when every field is there and every validated field is
\* finite, and neither of them otherwise; never one without the other.
C19_SportAllOrNothing ==
    Decoded("LF_SPORT_MOD_STATE") =>
        /\ envelope.robot_state.some = envelope.imu_data.some
        /\ SportValid =>
              /\ envelope.robot_state.some
              /\ \A f \in StateFields : NumEq(envelope.robot_state.f[f], msg.data[f])
              /\ \A f \in ImuFields : NumEq(envelope.imu_data.f[f], msg.data[f])
        /\ ~SportValid => Populated = {}

\* A sport-mode-state message whose robot-state half is well-formed and whose IMU half
\* is not has been decoded to neither record.
C19_Witness ==
    /\ Decoded("LF_SPORT_MOD_STATE")
    /\ BadFields(msg) # {}
    /\ BadFields(msg) \subseteq ImuFields
    /\ ~SportValid
    /\ Populated = {}

\* C20: an envelope has at most one of the five payloads populated.
C20_AtMostOnePayload == Cardinality(Populated) <= 1

\* C20, as the code has it: an envelope carries the payload of at most one topic, and
\* that is one record, or the RobotState and IMUData pair of a sport-mode-state message.
C20_OneTopicPayload ==
    envelope.ret # "pending" =>
        /\ envelope.ret = "None" => Populated = {}
        /\ \/ Populated = {}
           \/ Populated = {"lidar_data"} /\ msg.topic = "ULIDAR_ARRAY"
           \/ Populated = {"odometry_data"} /\ msg.topic = "ROBOTODOM"
           \/ Populated = {"robot_state", "imu_data"} /\ msg.topic = "LF_SPORT_MOD_STATE"
           \/ Populated = {"joint_data"} /\ msg.topic = "LOW_STATE"

\* An envelope with two payloads populated.
C20_Witness ==
    /\ envelope.ret = "RobotData"
    /\ Cardinality(Populated) = 2

\* The step in which a call of Go2Connection.disconnect() ends.
Go2DisconnectEnds == dpc = "await_pc_close" /\ dpc' = "idle"

\* C11: every call of Go2Connection.disconnect(), in any session state and also on a
\* session already disconnected, attempts the three closes in the order peer
\* connection, data channel, HTTP client whichever of them raise, and returns.
C11_DisconnectAttemptsAll ==
    [][Go2DisconnectEnds =>
          /\ closes' = <<"pc", "dc", "http">>
          /\ returned' = "returned"]_sessionVars

\* The second disconnect() on a session has ended, all three closes having raised.
C11_Witness ==
    /\ disconnects = 2
    /\ dpc = "idle"
    /\ raised = {"pc", "dc", "http"}
    /\ closes = <<"pc", "dc", "http">>
    /\ returned = "returned"

\* The message is a text spelling a validation message whose data is the success marker.
IsValidationOk(message) ==
    /\ message.kind = "str"
    /\ message.json
    /\ \E i \in DOMAIN message.pairs : message.pairs[i] = <<"type", "validation">>
    /\ \E i \in DOMAIN message.pairs : message.pairs[i] = <<"data", "Validation Ok.">>

\* C12: whatever messages have arrived, on_validated has been invoked once if a
\* validation success has arrived and not at all otherwise (further 'Validation Ok.'
\* messages do not invoke it again), and is_validated is true once it was invoked.
C12_ValidatedOnce ==
    /\ validated_calls = IF \E i \in DOMAIN robot_in : IsValidationOk(robot_in[i]) THEN 1 ELSE 0
    /\ validated_calls = 1 => is_validated

\* 'Validation Ok.' has arrived twice.
C12_Witness ==
    /\ robot_in = <<ValidationOk, ValidationOk>>
    /\ validated_calls = 1
    /\ is_validated

\* The validation responses among the messages sent on the robot data channel.
Responses(out) ==
    SelectSeq(out, LAMBDA e : e.via = "publish" /\ e.m.pairs[1] = <<"type", "validation">>)

\* The message that arrives on a data channel in this step, given the channel's
\* arrivals before and after it.
Arrives(before, after) == Len(after) = Len(before) + 1
Arrived(after) == after[Len(after)]

\* C13: is_validated never returns to false and becomes true only in the step in which
\* a validation message with data exactly 'Validation Ok.' arrives; the session sends
\* a validation response only in the step in which a challenge arrives, and one only.
C13_ValidatedOnlyByMarker ==
    [][/\ is_validated => is_validated'
       /\ (~is_validated /\ is_validated') =>
             Arrives(robot_in, robot_in') /\ IsValidationOk(Arrived(robot_in'))
       /\ Responses(robot_out') # Responses(robot_out) =>
             /\ Arrives(robot_in, robot_in')
             /\ Route(is_validated, Arrived(robot_in')) = "challenge"
             /\ Len(Responses(robot_out')) = Len(Responses(robot_out)) + 1]_sessionVars

\* A challenge was answered once and never acknowledged: the session is unvalidated
\* after further events, and has sent that one response.
C13_Witness ==
    /\ ~is_validated
    /\ Len(robot_in) = MaxRobotMsgs
    /\ robot_in[1] = ValidationNearOk
    /\ robot_in[2] = NotJson
    /\ Len(Responses(robot_out)) = 1
    /\ readyState = "closed"

Forward(message) == [via |-> "publish_json_str", m |-> message]

\* C15 as stated: a text message arriving on the client-facing data channel while a
\* robot session is stored is sent as it is on the robot data channel; a message that
\* is not text is not forwarded.
C15_ClientToRobotVerbatim ==
    [][Arrives(client_in, client_in') =>
          /\ (stored /\ Arrived(client_in').kind = "str") =>
                robot_out' = Append(robot_out, Forward(Arrived(client_in')))
          /\ Arrived(client_in').kind # "str" => robot_out' = robot_out]_sessionVars

\* C15 amended: a text message arriving on the client-facing data channel while a
\* robot session is stored and its data channel is open is sent as it is on the robot
\* data channel; with that channel not open it is dropped; a message that is not text
\* is not forwarded.
C15_ClientToRobotVerbatimWhenOpen ==
    [][Arrives(client_in, client_in') =>
          /\ (stored /\ readyState = "open" /\ Arrived(client_in').kind = "str") =>
                robot_out' = Append(robot_out, Forward(Arrived(client_in')))
          /\ (stored /\ readyState # "open") => robot_out' = robot_out
          /\ Arrived(client_in').kind # "str" => robot_out' = robot_out]_sessionVars

\* A text that is not JSON was forwarded, a bytes message was not.
C15_Witness ==
    /\ client_in = <<NotJson, LidarBytes>>
    /\ stored
    /\ \E i \in DOMAIN robot_out : robot_out[i] = Forward(NotJson)
    /\ \A i \in DOMAIN robot_out : robot_out[i].m # LidarBytes

\* The elements of a are elements of b, in the order they have in b.
RECURSIVE IsSubseq(_, _)
IsSubseq(a, b) ==
    IF a = <<>> THEN TRUE
    ELSE IF b = <<>> THEN FALSE
    ELSE IF Head(a) = Head(b) THEN IsSubseq(Tail(a), Tail(b))
    ELSE IsSubseq(a, Tail(b))

\* The client's messages among the messages sent on the robot data channel.
RECURSIVE Forwarded(_)
Forwarded(out) ==
    IF out = <<>> THEN <<>>
    ELSE IF Head(out).via = "publish_json_str" THEN <<Head(out).m>> \o Forwarded(Tail(out))
    ELSE Forwarded(Tail(out))

\* C16: in each direction the messages forwarded are in the order they arrived in, and
\* a message is forwarded in the step it arrives in or never: a robot message arriving
\* with the client-facing data channel absent or not open is not sent, then or later.
C16_OrderNoBacklog ==
    /\ [](IsSubseq(client_out, robot_in) /\ IsSubseq(Forwarded(robot_out), client_in))
    /\ [][/\ (Arrives(robot_in, robot_in') /\ client_dc # "open") => client_out' = client_out
          /\ ~Arrives(robot_in, robot_in') => client_out' = client_out
          /\ ~Arrives(client_in, client_in') => Forwarded(robot_out') = Forwarded(robot_out)]_sessionVars

\* A robot message arrived with no client data channel open and was dropped; a later
\* one was relayed; two different client messages were forwarded in their order.
C16_Witness ==
    /\ robot_in = <<ValidationOkBytes, Telemetry>>
    /\ client_out = <<Telemetry>>
    /\ client_in = <<NotJson, Command>>
    /\ Forwarded(robot_out) = <<NotJson, Command>>

\* C17: an offer that returns its answer has published "vid on" to the robot session
\* once (after setLocalDescription, before returning); an offer that fails during the
\* negotiation has published none.
C17_OfferPublishesVidOn ==
    [][\A r \in ReqIds :
          /\ OfferNegotiated(r) => vid' = 1
          /\ OfferNegotiationRaises(r) => vid' = 0]_vars

\* C21: process_webrtc_message returns None, and raises nothing, for every message
\* whose type is not 'msg' and for every 'msg' message whose topic is not one of the
\* four dispatched topics, whatever its data holds and also when it has no data.
C21_UndispatchedIsNone ==
    (/\ envelope.ret # "pending"
     /\ \/ msg.type # "msg"
        \/ msg.topic \notin {"ULIDAR_ARRAY", "ROBOTODOM", "LF_SPORT_MOD_STATE", "LOW_STATE"})
        => envelope = NoEnvelope("None")

\* A 'msg' message of a topic that is not dispatched and without a 'data' key has been
\* processed, and so has a message of another type that carries sport-mode data.
C21_Witness ==
    /\ envelope.ret = "None"
    /\ \/ msg.type = "msg" /\ msg.topic = "ULIDAR_STATE" /\ ~msg.has_data
       \/ msg.type = "validation" /\ msg.topic = "ROBOTODOM" /\ ~msg.has_data

\* The payloads a well-formed message of the topic is decoded to.
PayloadsOf(topic) ==
    CASE topic = "ULIDAR_ARRAY" -> {"lidar_data"}
      [] topic = "ROBOTODOM" -> {"odometry_data"}
      [] topic = "LF_SPORT_MOD_STATE" -> {"robot_state", "imu_data"}
      [] topic = "LOW_STATE" -> {"joint_data"}
      [] OTHER -> {}

\* The current message is well-formed and was decoded and delivered as a session that
\* has seen nothing else does it: a dispatched topic gives one call of on_message with
\* the topic's payloads, their fields as sent; another topic gives no call.
DeliveredAsSent ==
    /\ handled.outcome = "returned"
    /\ Populated = PayloadsOf(msg.topic)
    /\ \A p \in Populated : \A f \in DOMAIN envelope[p].f : envelope[p].f[f] = msg.data[f]
    /\ handled.on_message = IF PayloadsOf(msg.topic) = {} THEN 0 ELSE 1

\* C22: a telemetry message that fails validation or is malformed in another way
\* never raises out of on_data_channel_message and leaves is_validated as it was, and
\* the well-formed message that follows it is decoded and delivered as if the bad one
\* had not arrived.
C22_BadTelemetryContained ==
    /\ [](handled.outcome # "raised")
    /\ []((handled.after = "bad" /\ envelope.ret # "pending") => DeliveredAsSent)
    /\ [][is_validated' = is_validated]_decoderVars

\* A well-formed message has been delivered after a message without 'data' key, whose
\* KeyError the handler caught.
C22_Witness ==
    /\ handled.after = "bad"
    /\ envelope.ret = "RobotData"
    /\ handled.on_message = 1
    /\ DeliveredAsSent

\* C23: a text that is not JSON is a hard error: parsing it raises ValueError, and
\* the inbound message handler that parsed it surfaces the error to its caller.
C23_NotJsonSurfaced ==
    \A i \in DOMAIN calls :
        (calls[i].parsed /\ parse_datachannel_message(robot_in[i]).raised)
            => calls[i].outcome = "raised"

\* Lines 125-129 took the message as a validation message.
ConsumedAsValidation(validated, message) ==
    /\ ~validated
    /\ message.kind = "str"
    /\ message.json
    /\ \E i \in DOMAIN message.pairs : message.pairs[i] = <<"type", "validation">>
    /\ \E i \in DOMAIN message.pairs : message.pairs[i][1] = "data"

\* C24: with decode_message unset, every inbound message that is not consumed as a
\* validation message, text or bytes, JSON or not, is handed to the message callback
\* exactly once, as an envelope whose raw_message is the message itself, and is not
\* parsed.
C24_RawHandedOnce ==
    [][Arrives(robot_in, robot_in') =>
          LET message == Arrived(robot_in')
              call == calls'[Len(calls')]
          IN  ~ConsumedAsValidation(is_validated, message) =>
                  /\ Len(call.on_message) = 1
                  /\ call.on_message[1].raw_message = message
                  /\ ~call.parsed]_sessionVars

\* C25: publish(topic, data, msg_type) does the same whether or not the session is
\* validated: the JSON of {type, topic, data} is sent on the robot data channel if the
\* data can be serialized and the channel is open, nothing is sent otherwise, and the
\* call never raises to its caller.
C25_PublishIgnoresValidation ==
    /\ [](\A i \in DOMAIN publishes : publishes[i].outcome = "returned")
    /\ [][publishes' # publishes =>
            LET args == publishes'[Len(publishes')].args
                payload_str == Text(<<<<"type", args[3]>>, <<"topic", args[1]>>,
                                      <<"data", args[2]>>>>)
            IN  robot_out' = IF readyState = "open" /\ args[2] # NotSerializable
                             THEN Append(robot_out, [via |-> "publish", m |-> payload_str])
                             ELSE robot_out]_sessionVars

\* publish was called on an open channel before the session was validated, and its
\* message went out.
C25_Witness ==
    /\ Len(publishes) = 1
    /\ ~publishes[1].validated
    /\ ~is_validated
    /\ validated_calls = 0
    /\ \E i \in DOMAIN robot_out : robot_out[i] = [via |-> "publish", m |-> VidOn]

\* The exceptions a way of ending a request stands for: the StateException of a state
\* check, the HTTPException of connect's handshake failure, or any exception a library
\* call lets through.
ExceptionsOf(res) ==
    CASE res \in {"StateException", "StateException_SDP"} ->
            {e \in Exceptions : e.kind = "StateException"}
      [] res = "HTTPException502" -> {e \in Exceptions : e.kind = "HTTPException"}
      [] res = "Exception" -> {e \in Exceptions : e.kind \notin {"StateException", "HTTPException"}}
      [] OTHER -> {}

\* C26: every error that leaves the connect, disconnect or offer endpoint, the handshake
\* failure of connect included, reaches the client as a body with both 'detail' and
\* 'exception_type', so that recreate_and_raise_exception raises a typed error and not
\* the generic "type unknown" one.
C26_ErrorsCarryType ==
    \A alias \in BOOLEAN : \A e \in ExceptionsOf(last.res) :
        /\ {"detail", "exception_type"} \subseteq Response(alias, e).keys
        /\ recreate_and_raise_exception(Response(alias, e)).message
              \notin {"type unknown. {detail=}", "detail and type unknown"}

\* C27: an exception of one of the six kinds raised in an endpoint and serialized by the
\* relay's handlers is re-raised by recreate_and_raise_exception as the same kind, and
\* a tag outside the known ones is re-raised as a plain Exception.
C27_KindsRoundTrip ==
    recreated # NotRecreated =>
        /\ exc.kind \in {"StateException", "ValueError", "KeyError", "IndexError",
                         "RuntimeError", "TimeoutError"} => recreated.kind = exc.kind
        /\ (/\ "exception_type" \in err_json.keys
            /\ err_json.exception_type \notin
                  {"runtime_error", "value_error", "index_error", "key_error",
                   "state_exception", "timeout_error", "asyncio_timeout_error"})
              => recreated.kind = "Exception"

\* A builtin TimeoutError went through the handler registered last for its class, the
\* asyncio one, and came back as a TimeoutError.
C27_Witness ==
    /\ exc.kind = "TimeoutError"
    /\ aliased
    /\ err_json.exception_type = "asyncio_timeout_error"
    /\ recreated.kind = "TimeoutError"

\* The exception is an instance of the class.
IsInstance(e, cls) == \E i \in DOMAIN Mro(aliased, e.kind) : Mro(aliased, e.kind)[i] = cls

\* C28, as stated: StateException gives 409; ValueError, KeyError and IndexError give
\* 422; RuntimeError gives 500; TimeoutError gives 504; every other exception gives 500.
C28_StatusTable ==
    err_json # NoResponse =>
        err_json.status_code =
            CASE IsInstance(exc, "StateException") -> 409
              [] IsInstance(exc, "ValueError") -> 422
              [] IsInstance(exc, "KeyError") -> 422
              [] IsInstance(exc, "IndexError") -> 422
              [] IsInstance(exc, "RuntimeError") -> 500
              [] IsInstance(exc, "TimeoutError") -> 504
              [] OTHER -> 500

\* C28, as the code has it: the same table, with asyncio.TimeoutError giving 504 also
\* where it is a class of its own, and an HTTPException answered with its own status.
C28_StatusTableWithAsyncio ==
    err_json # NoResponse =>
        err_json.status_code =
            CASE IsInstance(exc, "StateException") -> 409
              [] IsInstance(exc, "ValueError") -> 422
              [] IsInstance(exc, "KeyError") -> 422
              [] IsInstance(exc, "IndexError") -> 422
              [] IsInstance(exc, "RuntimeError") -> 500
              [] IsInstance(exc, "TimeoutError") -> 504
              [] IsInstance(exc, "asyncio.TimeoutError") -> 504
              [] IsInstance(exc, "HTTPException") -> exc.status_code
              [] OTHER -> 500

\* An asyncio.TimeoutError that is no builtin TimeoutError was answered with 504.
C28_Witness ==
    /\ exc.kind = "asyncio.TimeoutError"
    /\ ~aliased
    /\ err_json.status_code = 504
    /\ err_json.exception_type = "asyncio_timeout_error"

\* C29: an inbound media track never causes an error: on_track returns for every track;
\* a track that is not video is ignored; a video track is passed to the video callback
\* exactly once when one is registered, also when the callback raises, and to nothing
\* when none is registered.
C29_TracksNeverRaise ==
    \A i \in DOMAIN track_calls :
        LET call == track_calls[i]
        IN  /\ call.outcome = "returned"
            /\ call.called = IF call.kind = "video" /\ on_video_frame THEN 1 ELSE 0

\* The video callback raised and on_track returned; the next track went to it as well.
C29_Witness ==
    /\ on_video_frame
    /\ Len(track_calls) >= 2
    /\ track_calls[1].kind = "video" /\ track_calls[1].callback = "Exception"
    /\ track_calls[2].kind = "video" /\ track_calls[2].called = 1

\* What the step put on the robot data channel.
Outbound == SubSeq(robot_out', Len(robot_out) + 1, Len(robot_out'))

\* The answer to a validation message: "vid on" for the success marker, and for any
\* other data, taken as the nonce, base64(md5("UnitreeGo2_" + nonce)).
Answer(data) ==
    IF data = "Validation Ok."
    THEN [via |-> "publish",
          m |-> Text(<<<<"type", "vid">>, <<"topic", "">>, <<"data", "on">>>>)]
    ELSE [via |-> "publish",
          m |-> Text(<<<<"type", "validation">>, <<"topic", "">>,
                       <<"data", "base64(md5(UnitreeGo2_" \o data \o "))">>>>)]

\* A validation message arrives at a session that is not validated.
ValidationArrives ==
    /\ Arrives(robot_in, robot_in')
    /\ ConsumedAsValidation(is_validated, Arrived(robot_in'))

\* C30, as stated: while the session is not validated, each validation message is
\* answered by exactly one outbound message and is not handed to the message callback;
\* 'Validation Ok.' gives one "vid on" publish and marks the session validated, any
\* other data gives one publish of the hashed nonce and leaves is_validated false.
C30_OneAnswer ==
    [][ValidationArrives =>
          LET data == Get(parse_datachannel_message(Arrived(robot_in')), "data")
          IN  /\ Outbound = <<Answer(data)>>
              /\ is_validated' = (data = "Validation Ok.")
              /\ calls'[Len(calls')].on_message = <<>>]_sessionVars

\* C30, as the code has it: the session's own answer is one publish, and it is the first
\* thing sent; after 'Validation Ok.' the on_validated callback runs in the same call,
\* and the relay's callback, once the session is stored, sends a subscription and the
\* lidar switch after it.
C30_OneAnswerThenCallback ==
    [][ValidationArrives =>
          LET data == Get(parse_datachannel_message(Arrived(robot_in')), "data")
          IN  /\ Len(Outbound) >= 1
              /\ Outbound[1] = Answer(data)
              /\ \A i \in 2..Len(Outbound) : Outbound[i] # Answer(data)
              /\ Len(Outbound) > 1 =>
                    /\ data = "Validation Ok."
                    /\ stored
                    /\ Outbound = <<Answer(data), [via |-> "send", m |-> Subscribe],
                                    [via |-> "publish", m |-> LidarSwitchOn]>>
              /\ is_validated' = (data = "Validation Ok.")
              /\ calls'[Len(calls')].on_message = <<>>]_sessionVars

\* A nonce was answered with its hash and then 'Validation Ok.' with "vid on", with
\* the session stored, so that the relay's callback sent its messages after it.
C30_Witness ==
    /\ robot_in = <<ValidationNearOk, ValidationOk>>
    /\ stored
    /\ is_validated
    /\ Len(robot_out) = 4
    /\ robot_out[1] = Answer("Validation Ok")
    /\ robot_out[2] = Answer("Validation Ok.")
    /\ robot_out[3].m = Subscribe

\* C36: in every reachable relay state a stored client-facing session implies a stored
\* robot session, also when an offer request and a disconnect request interleave at
\* their await points.
C36_ClientSessionImpliesRobotSession == relay_pc # None => go2 # None

\* The step in which offer creates a client-facing session and attaches the stored
\* video track to it (lines 59-70).
OfferAttaches == relay_pc' # relay_pc /\ relay_pc' # None

\* C40: a client-facing session created by offer is given the stored video track only
\* if it came from the robot session stored at that time, a session that is connected:
\* never the track of a session that failed to connect or was disconnected.
C40_TrackOfStoredSession ==
    [][(OfferAttaches /\ go2_video_track # None) =>
          /\ go2_video_track = go2
          /\ conn[go2_video_track] = "connected"]_vars

\* C34: a lidar-array message whose externally decoded buffer is None is decoded
\* without raising and its lidar record is discarded: lidar_data is not populated.
C34_NullBufferDiscarded ==
    (Decoded("ULIDAR_ARRAY") /\ msg.data["decoded_data"] = Null) =>
        /\ envelope.ret = "RobotData"
        /\ handled.outcome = "returned"
        /\ envelope.lidar_data = NoPayload
        /\ Populated = {}

\* A lidar message that is well-formed but for its decoded buffer, which is None, has
\* been decoded.
C34_Witness ==
    /\ Decoded("ULIDAR_ARRAY")
    /\ BadFields(msg) = {"decoded_data"}
    /\ msg.data["decoded_data"] = Null
    /\ envelope.lidar_data = NoPayload

\* C37: with decode_message set the message callback is invoked only with envelopes
\* in which at least one telemetry payload is populated: a message of a dispatched
\* topic whose record was discarded gives no call of the callback.
C37_CallbackOnlyWithPayload == handled.on_message = 1 => Populated # {}

\* C38: the subscribe messages, the lidar switch and the traffic-saving request that
\* follow the validation of a robot session are sent on that same session, never on
\* another one and never nowhere.
C38_SubscribedOnValidatedSession ==
    \A g \in validated_go2 : subscribed_on[g] = g

\* C31: every call of connect() attempts the steps in the fixed order offer, public
\* key, encryption, POST, decryption, remote description; it stops at the first step
\* that fails, and whatever that step raised, Go2ConnectionError is what leaves.
C31_HandshakeStopsWrapped ==
    \A i \in 1..Len(connects) :
        LET c == connects[i] IN
        /\ c.attempted = SubSeq(Steps, 1, Len(c.attempted))
        /\ c.failed = "none" => c.attempted = Steps /\ c.escaped = "none"
        /\ c.failed # "none" => /\ c.attempted[Len(c.attempted)] = c.failed
                                /\ c.escaped = "Go2ConnectionError"

\* The answer was posted for, its decoding raised something that is neither library
\* error, and the remote description was never applied.
C31_Witness ==
    \E i \in 1..Len(connects) :
        /\ connects[i].failed = "decrypt"
        /\ connects[i].raised = "Exception"
        /\ connects[i].attempted = SubSeq(Steps, 1, 5)

\* C33: for every byte string the padded length is a positive multiple of 16 beyond
\* the length of the data, a whole block when that length is a multiple of 16;
\* unpadding the padded string gives the string back; and decrypting what was
\* encrypted, with the same key, returns the plain text.
C33_PaddingRoundTrips ==
    LET padded == _pkcs7_pad(plain, BlockSize) IN
    /\ Len(padded) > Len(plain) /\ Len(padded) % BlockSize = 0
    /\ Len(padded) - Len(plain) <= BlockSize
    /\ Len(plain) % BlockSize = 0 => Len(padded) = Len(plain) + BlockSize
    /\ _pkcs7_unpad(padded) = [raised |-> "none", value |-> plain]
    /\ enc_b64.called => enc_b64.raised = "none"
    /\ decrypted.called => decrypted.raised = "none" /\ decrypted.value = plain

\* A plain text of exactly one block that ends in a byte that reads as padding has
\* been encrypted and decrypted.
C33_Witness ==
    /\ decrypted.called
    /\ Len(plain) = BlockSize
    /\ plain[Len(plain)] = 1

\* C32: with one thread submitting, the frame queue never holds more than one
\* frame; put never finds the queue full, so submit_u8 never waits; the frame in
\* the queue once submit_u8 has returned is the newest, every older one having
\* been received or dropped; and the viewer receives frames in the order they were
\* submitted, none twice.
C32_LatestFrameOnly ==
    /\ Len(frame_q) <= 1
    /\ ppc = "put" => Len(frame_q) < QueueSize
    /\ \A i \in 1..Len(frame_q) : frame_q[i] = submitted
    /\ \A n \in 1..submitted :
          n < submitted \/ frame_q = <<>> =>
              n \in dropped \/ \E i \in 1..Len(received) : received[i] = n
    /\ \A i, j \in 1..Len(received) : i < j => received[i] < received[j]

\* A frame was dropped unseen for a newer one, which the viewer then received
\* after an older one.
C32_Witness ==
    /\ 2 \in dropped
    /\ Len(received) >= 2
    /\ received[1] = 1
    /\ received[2] = 3

\* The connection has handled a validation response that is the hash of the nonce
\* pending at the time, and a subscription to the topic.
MatchedBefore(pc) ==
    \E i \in 1..Len(mock_in[pc]) :
        /\ mock_in[pc][i].pending # ""
        /\ mock_in[pc][i].m = Payload_str("", "base64(md5(UnitreeGo2_" \o mock_in[pc][i].pending \o "))",
                                          "validation")
SubscribedBefore(pc, topic) ==
    \E i \in 1..Len(mock_in[pc]) : mock_in[pc][i].m = SubscribeTo(topic)

\* C35: the mock robot sends telemetry on a connection only after a validation
\* response on that connection matched the hash of its pending nonce, only for a
\* topic that connection subscribed to, and never runs two publisher tasks for one
\* connection.
C35_TelemetryOnlyValidatedSubscribed ==
    [][\A pc \in MockPcs :
          /\ live_tasks'[pc] <= 1
          /\ \A i \in (Len(mock_sent[pc]) + 1)..Len(mock_sent'[pc]) :
                LET obj == parse_datachannel_message(mock_sent'[pc][i])
                IN  GetOr(obj, "type", "") = "msg" =>
                        /\ MatchedBefore(pc)
                        /\ SubscribedBefore(pc, GetOr(obj, "topic", ""))]_mockVars

\* The handshake as both ends saw it: the nonce, its hash, the acknowledgement.
HandshakeDone ==
    /\ Len(mock_sent[1]) >= 2 /\ Len(robot_in) >= 2
    /\ \E validation_key \in Nonces :
          /\ mock_sent[1][1] = NonceMessage(validation_key)
          /\ \E j \in 1..mock_read : robot_out[j].m = ValidationResponse(validation_key)
    /\ mock_sent[1][2] = ValidationOk
    /\ _validated[1]
    /\ live_tasks[1] = 1
    /\ is_validated

\* C39: a session connected to the mock robot over a reliable, ordered data channel
\* is eventually validated: the mock robot sent a nonce, the session answered with
\* its hash, the mock robot accepted it, acknowledged with 'Validation Ok.' and
\* started its publisher, and the session set is_validated; and it stays so.
C39_EventuallyValidated == <>[]HandshakeDone

\* The session is validated and telemetry of a topic the relay subscribed to has
\* been published to it.
C39_Witness ==
    /\ HandshakeDone
    /\ \E i \in 1..Len(mock_sent[1]) : mock_sent[1][i] = TelemetryOf("rt/lf/lowstate")
====
